---- MODULE Spec2Model ----
(***************************************************************************)
(* Annotation normalization and flattening pipeline of pdf_filler.         *)
(*                                                                         *)
(* Client half (PdfEditor): live canvas objects are stored per page at     *)
(* reference scale 1.0 and re-scaled when displayed.  Server half          *)
(* (PdfService): the stored objects are parsed, flattened and drawn.       *)
(*                                                                         *)
(* Numbers are exact rationals <<n, d>> (d > 0, lowest terms); they stand  *)
(* for the doubles of the JavaScript code up to floating-point rounding.   *)
(* A missing property (JavaScript undefined) is the pair <<0, 0>>.         *)
(***************************************************************************)
EXTENDS Integers, Sequences, FiniteSets, TLC

VARIABLES
    \* Coordinate Normalizer on one annotation
    nPhase,       \* "live": the object is on the canvas; "stored": it is in pageObjects only
    nKeep,        \* whether toObject() returns the custom properties
    nObj,         \* the live canvas object
    nScale,       \* this.scale
    nEntry,       \* the object's entry in pageObjects[currentPage]
    nPrevLive,    \* the live object at the latest store
    nStoreScale,  \* the scale of the latest store
    nFirstEntry,  \* the entry written by the first store
    nEvents,      \* number of restores so far
    nZoomOnly     \* every store so far was a zoom / resize store

normVars == <<nPhase, nKeep, nObj, nScale, nEntry, nPrevLive, nStoreScale,
              nFirstEntry, nEvents, nZoomOnly>>

VARIABLES
    \* Path Command Parser
    pPhase,       \* "idle", "ready" (an input is chosen), "parsed"
    pCmds,        \* the command list the input encodes
    pForm,        \* how the input was made: "array", "keyed", "string", "variant", "empty"
    pInput,       \* the value handed to parseSVGPath
    pOut          \* what parseSVGPath returned, or that it threw

parseVars == <<pPhase, pCmds, pForm, pInput, pOut>>

VARIABLES
    \* Curve Flattener (renderSVGPath)
    fPhase,       \* "start", "parsed", "drawn"
    fCmds,        \* the command list of the path
    fData,        \* pathData: left, top, scaleX, scaleY and path
    fPageHeight,  \* the page height
    fStream,      \* pathCommands: what parseSVGPath returned
    fOut,         \* pathSegments and the current point after the second loop
    fLines        \* the drawLine calls, in order

flatVars == <<fPhase, fCmds, fData, fPageHeight, fStream, fOut, fLines>>

VARIABLES
    \* Annotation Renderer, text (addTextToPage)
    tPhase,       \* "start", "done"
    tData,        \* textData: the text entry of the page's annotation set
    tText,        \* textData.text
    tPageHeight,  \* the page height
    tCall         \* the page.drawText call, if one was made

textVars == <<tPhase, tData, tText, tPageHeight, tCall>>

VARIABLES
    \* PdfEditor
    eKeep,        \* whether toObject() hands back baseFontSize / manualScaleX / manualScaleY
    eWindow,      \* the browser window: mobile or not, and the fit-to-width ratio
    eBase,        \* this.baseScale
    eZoom,        \* this.zoomLevel
    eScale,       \* this.scale
    eShown,       \* the scale the canvas and its objects are displayed at
    ePage,        \* this.currentPage
    ePageObjects, \* this.pageObjects
    eCanvas,      \* this.fabricCanvas.getObjects()
    eHasCanvas,   \* this.fabricCanvas is set
    eListening,   \* setupEventListeners has run
    eSwitching,   \* this.isPageSwitching
    eRestoring,   \* this.isRestoring
    eSkipSave,    \* this.skipPageSave
    ePc,          \* where the running renderPage is: "idle", "getPage", "render", "image", "restoring"
    eTarget,      \* pageNumber of the running renderPage
    ePending,     \* the callbacks of restorePageObjects still to come: the scaled object, and
                  \* how many restorePageObjects calls were started after its own (age)
    eFinished,    \* runs of finishRestoration for the latest restorePageObjects call
    ePlaced,      \* per object id: the page the user placed it on while the editor was at
                  \* rest, 0 if there is none or the user deleted it
    eTimers,      \* pending 10 ms auto-save timers
    eResize,      \* this.resizeTimeout is pending
    eSignature,   \* a signature image is loading (fabric.Image.fromURL)
    eSubmit,      \* saveChanges: "idle" or "confirm" (the confirmation dialog is open)
    eSent,        \* the pages of the latest POST
    eEvents,      \* number of user and window events so far
    eIds          \* number of objects created so far

editorVars == <<eKeep, eWindow, eBase, eZoom, eScale, eShown, ePage, ePageObjects, eCanvas,
                eHasCanvas, eListening, eSwitching, eRestoring, eSkipSave, ePc, eTarget,
                ePending, eFinished, ePlaced, eTimers, eResize, eSignature, eSubmit, eSent, eEvents,
                eIds>>

VARIABLES
    \* Annotation Renderer, image (addImageToPage)
    iPhase,       \* "start", "done"
    iData,        \* imageData: the image entry
    iPageSize,    \* the page: width and height
    iCall         \* what was drawn: the image or the placeholder, and where

imageVars == <<iPhase, iData, iPageSize, iCall>>

VARIABLES
    \* Color Codec (parseColor)
    cPhase,       \* "start", "done"
    cColor,       \* colorString, a sequence of characters
    cResult       \* the returned { r, g, b }

colorVars == <<cPhase, cColor, cResult>>

VARIABLES
    \* Annotation Renderer, path (addPathToPage)
    rPhase,       \* "off", "start", "done"
    rData,        \* pathData: the path entry
    rPageHeight,  \* page height
    rMarks,       \* what was drawn: lines or the bounding-box rectangle
    rRaised       \* whether addPathToPage threw to its caller

pathVars == <<rPhase, rData, rPageHeight, rMarks, rRaised>>

VARIABLES
    \* Flatten Orchestrator (savePdfWithChanges, addAnnotationsToPage)
    sPc,          \* "off", "load", "pages", "page", "save", "write", "returned", "thrown"
    sPages,       \* modifications.pages in for-in order: page number and pageObjects
    sKey,         \* position in sPages of the page number being handled
    sAnn,         \* position in pageObjects of the annotation being handled
    sMarks,       \* for each page of the document, the marks drawn on it so far
    sDone,        \* positions in sPages whose addAnnotationsToPage call returned
    sFile,        \* the filled output file: whether written, and the marks in it
    sEscaped      \* whether an exception left addAnnotationsToPage

saveVars == <<sPc, sPages, sKey, sAnn, sMarks, sDone, sFile, sEscaped>>

VARIABLES
    \* PdfController with SessionManager, the database and the temp directory
    wNow,         \* position of the clock in TimePoints
    wEnv,         \* process.env: URL_EXPIRY_HOURS, MAX_TEMP_FILE_AGE_HOURS (0: not set)
    wSessions,    \* approval_sessions: for each session id, its row
    wDocs,        \* session_documents: for each file id, its row
    wFiles,       \* temp directory: for each file id, the original and the filled file
                  \* (mtime), and the submissions drawn into the filled file (layers)
    wHooks,       \* for each session id, the calls of the Success and Declined webhooks
    wReqs,        \* the requests: handler, fileId, sessionId, position, answer
    wTimers       \* sessions whose delayed cleanup (setTimeout) is pending

webVars == <<wNow, wEnv, wSessions, wDocs, wFiles, wHooks, wReqs, wTimers>>

vars == <<normVars, parseVars, flatVars, textVars, editorVars, imageVars, colorVars, pathVars, saveVars, webVars>>

----------------------------------------------------------------------------
(* Rational arithmetic *)

Abs(x) == IF x < 0 THEN -x ELSE x

RECURSIVE GCD(_, _)
GCD(a, b) == IF b = 0 THEN a ELSE GCD(b, a % b)

Rat(n, d) ==
    LET g == GCD(Abs(n), Abs(d))
        s == IF d < 0 THEN -1 ELSE 1
    IN  <<(s * n) \div g, (s * d) \div g>>

Num(n) == <<n, 1>>
Undef == <<0, 0>>

RMul(a, b) == Rat(a[1] * b[1], a[2] * b[2])
RDiv(a, b) == Rat(a[1] * b[2], a[2] * b[1])
RAdd(a, b) == Rat(a[1] * b[2] + b[1] * a[2], a[2] * b[2])
RSub(a, b) == Rat(a[1] * b[2] - b[1] * a[2], a[2] * b[2])
RLe(a, b) == a[1] * b[2] <= b[1] * a[2]
RLt(a, b) == a[1] * b[2] < b[1] * a[2]
RMax(a, b) == IF RLe(a, b) THEN b ELSE a
RMin(a, b) == IF RLe(a, b) THEN a ELSE b

(* JavaScript truthiness of a number-or-undefined, and the a || b idiom *)
Truthy(x) == x # Undef /\ x[1] # 0
OrElse(x, y) == IF Truthy(x) THEN x ELSE y

----------------------------------------------------------------------------
(* Coordinate Normalizer (PdfEditor) *)

TextType == "i-text"
PathType == "path"
ImageType == "image"
ObjTypes == {TextType, PathType, ImageType}

(* obj.toObject(): fabric serialises its own properties; whether properties *)
(* that were only passed through the constructor options (baseFontSize,    *)
(* manualScaleX, manualScaleY) come back is the library's choice: keep.    *)
toObject(obj, keep) ==
    IF keep THEN obj
    ELSE [obj EXCEPT !.baseFontSize = Undef, !.manualScaleX = Undef,
                     !.manualScaleY = Undef]

(* the objects.map callback of saveCurrentPageObjects *)
storeObjData(objData, currentScale) ==
    IF Truthy(currentScale) /\ currentScale # Num(1) THEN
        LET base == IF ~Truthy(objData.baseFontSize)
                    THEN RDiv(OrElse(objData.fontSize, Num(20)), currentScale)
                    ELSE objData.baseFontSize
            moved == [objData EXCEPT !.left = RDiv(objData.left, currentScale),
                                     !.top = RDiv(objData.top, currentScale)]
            scaled == IF objData.type = TextType
                      THEN [moved EXCEPT
                              !.baseFontSize = base,
                              !.manualScaleX = OrElse(objData.scaleX, Num(1)),
                              !.manualScaleY = OrElse(objData.scaleY, Num(1)),
                              !.fontSize = base,
                              !.scaleX = Num(1),
                              !.scaleY = Num(1)]
                      ELSE [moved EXCEPT
                              !.scaleX = RDiv(OrElse(objData.scaleX, Num(1)), currentScale),
                              !.scaleY = RDiv(OrElse(objData.scaleY, Num(1)), currentScale)]
        IN  IF Truthy(scaled.strokeWidth)
            THEN [scaled EXCEPT !.strokeWidth = RDiv(scaled.strokeWidth, currentScale)]
            ELSE scaled
    ELSE objData

(* the objects.map callback of saveCurrentPageObjectsWithScale *)
storeObjDataWithScale(objData, useScale) ==
    IF Truthy(useScale) /\ useScale # Num(1) THEN
        LET base == IF ~Truthy(objData.baseFontSize)
                    THEN RDiv(OrElse(objData.fontSize, Num(20)), useScale)
                    ELSE objData.baseFontSize
            moved == [objData EXCEPT !.left = RDiv(objData.left, useScale),
                                     !.top = RDiv(objData.top, useScale)]
            scaled == IF objData.type = TextType
                      THEN [moved EXCEPT
                              !.baseFontSize = base,
                              !.manualScaleX = OrElse(objData.scaleX, Num(1)),
                              !.manualScaleY = OrElse(objData.scaleY, Num(1)),
                              !.fontSize = base,
                              !.scaleX = Num(1),
                              !.scaleY = Num(1)]
                      ELSE [moved EXCEPT
                              !.scaleX = RDiv(OrElse(objData.scaleX, Num(1)), useScale),
                              !.scaleY = RDiv(OrElse(objData.scaleY, Num(1)), useScale)]
        IN  IF Truthy(scaled.strokeWidth)
            THEN [scaled EXCEPT !.strokeWidth = RDiv(scaled.strokeWidth, useScale)]
            ELSE scaled
    ELSE objData

(* scaleObjectForCurrentZoom with the stroke width left at its stored value *)
scaleObjectForCurrentZoom_keepStroke(objData, currentScale) ==
    IF Truthy(currentScale) /\ currentScale # Num(1) THEN
        LET baseFontSize == OrElse(objData.baseFontSize,
                                   OrElse(objData.fontSize, Num(20)))
            moved == [objData EXCEPT !.left = RMul(objData.left, currentScale),
                                     !.top = RMul(objData.top, currentScale)]
        IN  IF objData.type = TextType
            THEN [moved EXCEPT
                    !.fontSize = RMul(baseFontSize, currentScale),
                    !.scaleX = OrElse(objData.manualScaleX, Num(1)),
                    !.scaleY = OrElse(objData.manualScaleY, Num(1)),
                    !.baseFontSize = baseFontSize]
            ELSE [moved EXCEPT
                    !.scaleX = RMul(OrElse(objData.scaleX, Num(1)), currentScale),
                    !.scaleY = RMul(OrElse(objData.scaleY, Num(1)), currentScale)]
    ELSE objData

(* scaleObjectForCurrentZoom of restorePageObjects *)
scaleObjectForCurrentZoom(objData, currentScale) ==
    IF Truthy(currentScale) /\ currentScale # Num(1) THEN
        LET baseFontSize == OrElse(objData.baseFontSize,
                                   OrElse(objData.fontSize, Num(20)))
            moved == [objData EXCEPT !.left = RMul(objData.left, currentScale),
                                     !.top = RMul(objData.top, currentScale)]
            scaled == IF objData.type = TextType
                      THEN [moved EXCEPT
                              !.fontSize = RMul(baseFontSize, currentScale),
                              !.scaleX = OrElse(objData.manualScaleX, Num(1)),
                              !.scaleY = OrElse(objData.manualScaleY, Num(1)),
                              !.baseFontSize = baseFontSize]
                      ELSE [moved EXCEPT
                              !.scaleX = RMul(OrElse(objData.scaleX, Num(1)), currentScale),
                              !.scaleY = RMul(OrElse(objData.scaleY, Num(1)), currentScale)]
        IN  IF Truthy(scaled.strokeWidth)
            THEN [scaled EXCEPT !.strokeWidth = RMul(scaled.strokeWidth, currentScale)]
            ELSE scaled
    ELSE objData

----------------------------------------------------------------------------
(* Path Command Parser (PdfService.parseSVGPath)                            *)
(*                                                                          *)
(* A JavaScript string is a sequence of one-character strings.  A scalar    *)
(* (an element of a path tuple, a token of the canonical stream) is a       *)
(* record: k = "str" with its characters c, k = "num" with its value n,     *)
(* or k = "nan".  Path operands are integers.                               *)

StrTok(chars) == [k |-> "str", c |-> chars, n |-> 0]
NumTok(n) == [k |-> "num", c |-> <<>>, n |-> n]
NaNTok == [k |-> "nan", c |-> <<>>, n |-> 0]

(* JavaScript values handed to parseSVGPath *)
JsUndefined == [t |-> "undefined", str |-> <<>>, arr |-> <<>>, obj |-> <<>>, num |-> 0]
JsNull == [t |-> "null", str |-> <<>>, arr |-> <<>>, obj |-> <<>>, num |-> 0]
JsString(chars) == [t |-> "string", str |-> chars, arr |-> <<>>, obj |-> <<>>, num |-> 0]
JsNumber(n) == [t |-> "number", str |-> <<>>, arr |-> <<>>, obj |-> <<>>, num |-> n]
JsBoolean(b) == [t |-> "boolean", str |-> <<>>, arr |-> <<>>, obj |-> <<>>,
                 num |-> IF b THEN 1 ELSE 0]
(* an array; each element is [isArr, items] *)
JsArray(elems) == [t |-> "array", str |-> <<>>, arr |-> elems, obj |-> <<>>, num |-> 0]
(* a plain object: its properties <<key, element>> in insertion order *)
JsObject(props) == [t |-> "object", str |-> <<>>, arr |-> <<>>, obj |-> props, num |-> 0]

TupleElem(items) == [isArr |-> TRUE, items |-> items]
ScalarElem == [isArr |-> FALSE, items |-> <<>>]

(* !pathData with the test left out *)
Falsy_never(v) == FALSE

(* !pathData *)
Falsy(v) ==
    \/ v.t \in {"undefined", "null"}
    \/ v.t = "string" /\ v.str = <<>>
    \/ v.t \in {"number", "boolean"} /\ v.num = 0

Digits == <<"0", "1", "2", "3", "4", "5", "6", "7", "8", "9">>
IsDigit(ch) == \E i \in 1..10 : Digits[i] = ch
DigitValue(ch) == (CHOOSE i \in 1..10 : Digits[i] = ch) - 1
IsSpace(ch) == ch \in {" ", "\t"}

UpperLetters == {"M", "L", "H", "V", "C", "S", "Q", "T", "A", "Z"}
LowerLetters == {"m", "l", "h", "v", "c", "s", "q", "t", "a", "z"}

(* [MLHVCSQTAZ] with the i flag *)
IsCommandLetter(ch) == ch \in UpperLetters \cup LowerLetters

toUpperCaseChar(ch) ==
    CASE ch = "m" -> "M" [] ch = "l" -> "L" [] ch = "h" -> "H" [] ch = "v" -> "V"
      [] ch = "c" -> "C" [] ch = "s" -> "S" [] ch = "q" -> "Q" [] ch = "t" -> "T"
      [] ch = "a" -> "A" [] ch = "z" -> "Z" [] OTHER -> ch

toUpperCase(s) == [i \in 1..Len(s) |-> toUpperCaseChar(s[i])]

RECURSIVE TrimLeft(_)
TrimLeft(s) == IF s # <<>> /\ IsSpace(Head(s)) THEN TrimLeft(Tail(s)) ELSE s

RECURSIVE TrimRight(_)
TrimRight(s) ==
    IF s # <<>> /\ IsSpace(s[Len(s)]) THEN TrimRight(SubSeq(s, 1, Len(s) - 1)) ELSE s

(* String.prototype.trim *)
trim(s) == TrimRight(TrimLeft(s))

(* the commas left in place *)
ReplaceCommas_none(s) == s

(* replace(/,/g, ' ') *)
ReplaceCommas(s) == [i \in 1..Len(s) |-> IF s[i] = "," THEN " " ELSE s[i]]

(* replace(/\s+/g, ' ') *)
RECURSIVE CollapseSpaces(_)
CollapseSpaces(s) ==
    IF s = <<>> THEN <<>>
    ELSE IF IsSpace(Head(s))
         THEN <<" ">> \o CollapseSpaces(TrimLeft(s))
         ELSE <<Head(s)>> \o CollapseSpaces(Tail(s))

(* split(/(?=[MLHVCSQTAZ])/i): cut before every command letter but the first character *)
RECURSIVE SplitBeforeLetters(_, _)
SplitBeforeLetters(s, cur) ==
    IF s = <<>> THEN <<cur>>
    ELSE IF IsCommandLetter(Head(s)) /\ cur # <<>>
         THEN <<cur>> \o SplitBeforeLetters(Tail(s), <<Head(s)>>)
         ELSE SplitBeforeLetters(Tail(s), Append(cur, Head(s)))

(* split(/\s+/) *)
RECURSIVE SplitSpaces(_, _)
SplitSpaces(s, cur) ==
    IF s = <<>> THEN <<cur>>
    ELSE IF IsSpace(Head(s))
         THEN <<cur>> \o SplitSpaces(TrimLeft(s), <<>>)
         ELSE SplitSpaces(Tail(s), Append(cur, Head(s)))

RECURSIVE DigitPrefixLen(_)
DigitPrefixLen(s) ==
    IF s # <<>> /\ IsDigit(Head(s)) THEN 1 + DigitPrefixLen(Tail(s)) ELSE 0

RECURSIVE DigitsValue(_, _)
DigitsValue(s, acc) ==
    IF s = <<>> THEN acc ELSE DigitsValue(Tail(s), 10 * acc + DigitValue(Head(s)))

(* parseFloat of a string: the longest numeric prefix, NaN when there is none *)
parseFloatStr(s) ==
    LET body == IF s # <<>> /\ Head(s) \in {"-", "+"} THEN Tail(s) ELSE s
        k == DigitPrefixLen(body)
        v == DigitsValue(SubSeq(body, 1, k), 0)
    IN  IF k = 0 THEN NaNTok
        ELSE IF Head(s) = "-" THEN NumTok(-v) ELSE NumTok(v)

(* parseFloat of a tuple element *)
parseFloat(e) == IF e.k = "str" THEN parseFloatStr(trim(e.c)) ELSE e

RECURSIVE FlattenSeqs(_)
FlattenSeqs(ss) == IF ss = <<>> THEN <<>> ELSE Head(ss) \o FlattenSeqs(Tail(ss))

(* typeof pathData === 'object' (null included); Object.keys(null) throws *)
TypeofObject(v) == v.t \in {"object", "array", "null"}

Returned(commands) == [thrown |-> FALSE, commands |-> commands]
Thrown == [thrown |-> TRUE, commands |-> <<>>]

(* the body of the for loop over the tuples (array and keyed-object branch) *)
TupleCommands(pathCommand) ==
    IF pathCommand.isArr /\ Len(pathCommand.items) > 0
    THEN <<StrTok(toUpperCase(pathCommand.items[1].c))>>
         \o [i \in 1..(Len(pathCommand.items) - 1) |-> parseFloat(pathCommand.items[i + 1])]
    ELSE <<>>

(* command.toUpperCase() on a command that is not a string throws a TypeError *)
TupleThrows(pathCommand) ==
    pathCommand.isArr /\ Len(pathCommand.items) > 0 /\ pathCommand.items[1].k # "str"

(* parseInt of a property key *)
parseInt(key) == parseFloatStr(trim(key)).n

(* Object.keys(pathData).sort((a, b) => parseInt(a) - parseInt(b)): the     *)
(* positions of the properties, integer keys ascending                      *)
RECURSIVE SortedKeyPositions(_, _)
SortedKeyPositions(props, left) ==
    IF left = {} THEN <<>>
    ELSE LET m == CHOOSE i \in left :
                    \A j \in left : parseInt(props[i][1]) <= parseInt(props[j][1])
         IN  <<m>> \o SortedKeyPositions(props, left \ {m})

(* the operands pushed for every letter, as the tuple branch does *)
TokenCommands_keepOperands(token) ==
    LET parts == SplitSpaces(trim(token), <<>>)
        command == parts[1]
        parsed == [i \in 1..(Len(parts) - 1) |-> parseFloatStr(parts[i + 1])]
        IsNumber(x) == x.k = "num"
        coords == SelectSeq(parsed, IsNumber)
    IN  <<StrTok(toUpperCase(command))>> \o coords

(* the body of the for loop over the tokens of an SVG path string *)
TokenCommands(token) ==
    LET parts == SplitSpaces(trim(token), <<>>)
        command == parts[1]
        parsed == [i \in 1..(Len(parts) - 1) |-> parseFloatStr(parts[i + 1])]
        IsNumber(x) == x.k = "num"
        coords == SelectSeq(parsed, IsNumber)
        upper == toUpperCase(command)
    IN  <<StrTok(upper)>> \o
        (IF upper = <<"M">> \/ upper = <<"L">>
         THEN IF Len(coords) >= 2 THEN SubSeq(coords, 1, 2) ELSE <<>>
         ELSE IF upper = <<"Q">>
         THEN IF Len(coords) >= 4 THEN SubSeq(coords, 1, 4) ELSE <<>>
         ELSE IF upper = <<"C">>
         THEN IF Len(coords) >= 6 THEN SubSeq(coords, 1, 6) ELSE <<>>
         ELSE <<>>)

parseSVGPath(pathData) ==
    IF Falsy(pathData) THEN Returned(<<>>)
    ELSE IF pathData.t = "array" THEN
        IF \E i \in 1..Len(pathData.arr) : TupleThrows(pathData.arr[i])
        THEN Thrown
        ELSE Returned(FlattenSeqs([i \in 1..Len(pathData.arr) |->
                                      TupleCommands(pathData.arr[i])]))
    ELSE IF TypeofObject(pathData) THEN
        LET sortedKeys == SortedKeyPositions(pathData.obj, 1..Len(pathData.obj))
        IN  IF pathData.t = "null" \/ \E i \in 1..Len(pathData.obj) : TupleThrows(pathData.obj[i][2])
            THEN Thrown
            ELSE Returned(FlattenSeqs([i \in 1..Len(sortedKeys) |->
                                          TupleCommands(pathData.obj[sortedKeys[i]][2])]))
    ELSE IF pathData.t = "string" THEN
        LET cleaned == CollapseSpaces(ReplaceCommas(trim(pathData.str)))
            NonBlank(token) == trim(token) # <<>>
            tokens == SelectSeq(SplitBeforeLetters(cleaned, <<>>), NonBlank)
        IN  Returned(FlattenSeqs([i \in 1..Len(tokens) |-> TokenCommands(tokens[i])]))
    ELSE Returned(<<>>)

----------------------------------------------------------------------------
(* Curve Flattener (PdfService.drawSVGPathCommands)                         *)
(*                                                                          *)
(* A draw-space coordinate is [nan, v]: v counts thousandths, so that the   *)
(* Bezier samples at multiples of a tenth are exact; nan is JavaScript NaN  *)
(* (arithmetic on a missing or non-numeric operand).                        *)

FNum(v) == [nan |-> FALSE, v |-> v]
FNaN == [nan |-> TRUE, v |-> 0]
Milli(n) == 1000 * n

(* pathCommands[j] read as a number (j counts from 1) *)
OperandAt(pathCommands, j) ==
    IF j <= Len(pathCommands) /\ pathCommands[j].k = "num"
    THEN FNum(pathCommands[j].n) ELSE FNaN

(* the running minimum: [unset] is Infinity *)
Infinity == [unset |-> TRUE, nan |-> FALSE, v |-> 0]
MathMin(m, x) ==
    IF m.nan \/ x.nan THEN [unset |-> FALSE, nan |-> TRUE, v |-> 0]
    ELSE IF m.unset \/ x.v < m.v THEN [unset |-> FALSE, nan |-> FALSE, v |-> x.v]
    ELSE m

IsLetter(tok, letter) == tok.k = "str" /\ tok.c = <<letter>>

(* the first loop: the minimum x (off = 0) or y (off = 1) of all M, L, Q    *)
(* and C operands; the maxima it also computes are never read               *)
RECURSIVE BoundingMin(_, _, _, _)
BoundingMin(pathCommands, i, off, m) ==
    IF i > Len(pathCommands) THEN m
    ELSE LET cmd == pathCommands[i]
             At(k) == OperandAt(pathCommands, i + k + off)
         IN  IF IsLetter(cmd, "M") \/ IsLetter(cmd, "L")
             THEN BoundingMin(pathCommands, i + 3, off, MathMin(m, At(1)))
             ELSE IF IsLetter(cmd, "Q")
             THEN BoundingMin(pathCommands, i + 5, off, MathMin(MathMin(m, At(1)), At(3)))
             ELSE IF IsLetter(cmd, "C")
             THEN BoundingMin(pathCommands, i + 7, off,
                              MathMin(MathMin(MathMin(m, At(1)), At(3)), At(5)))
             ELSE BoundingMin(pathCommands, i + 1, off, m)

(* x = objectLeft + (pathX - minX) * scaleX *)
TransformX(pathX, minX, pathData) ==
    IF pathX.nan \/ minX.nan \/ minX.unset THEN FNaN
    ELSE FNum(Milli(pathData.left + (pathX.v - minX.v) * pathData.scaleX))

(* the y axis left as it is on the canvas: y = objectTop + (pathY - minY) * scaleY *)
TransformY_noFlip(pathY, minY, pathData, pageHeight) ==
    IF pathY.nan \/ minY.nan \/ minY.unset THEN FNaN
    ELSE FNum(Milli(pathData.top + (pathY.v - minY.v) * pathData.scaleY))

(* y = pageHeight - (objectTop + (pathY - minY) * scaleY) *)
TransformY(pathY, minY, pathData, pageHeight) ==
    IF pathY.nan \/ minY.nan \/ minY.unset THEN FNaN
    ELSE FNum(Milli(pageHeight - (pathData.top + (pathY.v - minY.v) * pathData.scaleY)))

(* t, a double that starts at 0 or 0.1 and grows by t += 0.1.  The k-th sum *)
(* is not k/10: it is k/10 + err / (10 * 2^55), with err as IEEE-754        *)
(* round-to-nearest addition gives it.                                      *)
StepError == <<2, 4, 16, 8, 0, -8, -16, -24, -32, -40, -48>>
FloatT(k) == [tenths |-> k, err |-> IF k = 0 THEN 0 ELSE StepError[k]]
(* t += 0.1 *)
AddTenth(t) == FloatT(t.tenths + 1)
(* t < 1 at the nominal tenths: the loop stops before t reaches 1 *)
AtMostOne_strict(t) == t.tenths < 10

(* t <= 1 *)
AtMostOne(t) == t.tenths < 10 \/ (t.tenths = 10 /\ t.err <= 0)

(* (1-t)^2 * p0 + 2 (1-t) t * p1 + t^2 * p2 at t = k/10 *)
QuadBlend(k, p0, p1, p2) ==
    IF p0.nan \/ p1.nan \/ p2.nan THEN FNaN
    ELSE FNum(((10 - k) * (10 - k) * p0.v + 2 * (10 - k) * k * p1.v + k * k * p2.v) \div 100)

(* (1-t)^3 * p0 + 3 (1-t)^2 t * p1 + 3 (1-t) t^2 * p2 + t^3 * p3 at t = k/10 *)
CubicBlend(k, p0, p1, p2, p3) ==
    IF p0.nan \/ p1.nan \/ p2.nan \/ p3.nan THEN FNaN
    ELSE FNum(((10 - k) * (10 - k) * (10 - k) * p0.v
               + 3 * (10 - k) * (10 - k) * k * p1.v
               + 3 * (10 - k) * k * k * p2.v
               + k * k * k * p3.v) \div 1000)

Point(x, y) == [x |-> x, y |-> y]

(* for (let t = 0.1; t <= 1; t += 0.1) currentSegment.push(...) *)
RECURSIVE QuadSamples(_, _, _, _)
QuadSamples(t, cur, cp, end) ==
    IF AtMostOne(t)
    THEN <<Point(QuadBlend(t.tenths, cur.x, cp.x, end.x),
                 QuadBlend(t.tenths, cur.y, cp.y, end.y))>>
         \o QuadSamples(AddTenth(t), cur, cp, end)
    ELSE <<>>

(* for (let t = 0; t <= 1; t += 0.1) currentSegment.push(...) *)
RECURSIVE CubicSamples(_, _, _, _, _)
CubicSamples(t, cur, cp1, cp2, end) ==
    IF AtMostOne(t)
    THEN <<Point(CubicBlend(t.tenths, cur.x, cp1.x, cp2.x, end.x),
                 CubicBlend(t.tenths, cur.y, cp1.y, cp2.y, end.y))>>
         \o CubicSamples(AddTenth(t), cur, cp1, cp2, end)
    ELSE <<>>

(* the second loop from position i on: st = [segs, seg, cur] are             *)
(* pathSegments, currentSegment and (currentX, currentY)                    *)
RECURSIVE CollectSegments(_, _, _, _, _)
CollectSegments(pathCommands, i, st, pathData, pageHeight) ==
    IF i > Len(pathCommands) THEN st
    ELSE LET cmd == pathCommands[i]
             minX == BoundingMin(pathCommands, 1, 0, Infinity)
             minY == BoundingMin(pathCommands, 1, 1, Infinity)
             P(k) == Point(TransformX(OperandAt(pathCommands, i + k), minX, pathData),
                           TransformY(OperandAt(pathCommands, i + k + 1), minY, pathData,
                                      pageHeight))
         IN  IF IsLetter(cmd, "M") THEN
                 CollectSegments(pathCommands, i + 3,
                     [segs |-> IF Len(st.seg) > 0 THEN Append(st.segs, st.seg) ELSE st.segs,
                      seg |-> <<P(1)>>, cur |-> P(1)],
                     pathData, pageHeight)
             ELSE IF IsLetter(cmd, "L") THEN
                 CollectSegments(pathCommands, i + 3,
                     [st EXCEPT !.seg = Append(st.seg, P(1)), !.cur = P(1)],
                     pathData, pageHeight)
             ELSE IF IsLetter(cmd, "Q") THEN
                 CollectSegments(pathCommands, i + 5,
                     [st EXCEPT !.seg = st.seg \o QuadSamples(FloatT(1), st.cur, P(1), P(3)),
                                !.cur = P(3)],
                     pathData, pageHeight)
             ELSE IF IsLetter(cmd, "C") THEN
                 CollectSegments(pathCommands, i + 7,
                     [st EXCEPT !.seg = st.seg \o
                                    CubicSamples(FloatT(0), st.cur, P(1), P(3), P(5)),
                                !.cur = P(5)],
                     pathData, pageHeight)
             ELSE IF IsLetter(cmd, "Z") /\ Len(st.seg) > 0 THEN
                 CollectSegments(pathCommands, i + 1,
                     [st EXCEPT !.seg = Append(st.seg, st.seg[1])], pathData, pageHeight)
             ELSE CollectSegments(pathCommands, i + 1, st, pathData, pageHeight)

(* const scaleX = pathData.scaleX || 1, objectLeft = pathData.left || 0, ... *)
PathDefaults(pathData) ==
    [pathData EXCEPT !.scaleX = IF pathData.scaleX = 0 THEN 1 ELSE pathData.scaleX,
                     !.scaleY = IF pathData.scaleY = 0 THEN 1 ELSE pathData.scaleY]

(* pathSegments when the second loop and the final push are done, and the   *)
(* current point                                                            *)
drawSVGPathCommands(pathCommands, pathData, pageHeight) ==
    LET st == CollectSegments(pathCommands, 1,
                  [segs |-> <<>>, seg |-> <<>>, cur |-> Point(FNum(0), FNum(0))],
                  PathDefaults(pathData), pageHeight)
    IN  [pathSegments |-> IF Len(st.seg) > 0 THEN Append(st.segs, st.seg) ELSE st.segs,
         current |-> st.cur]

(* every line drawn from the first point of the segment *)
drawPathSegment_fromFirst(points) ==
    IF Len(points) < 2 THEN <<>>
    ELSE [i \in 1..(Len(points) - 1) |-> [start |-> points[1], end |-> points[i + 1]]]

(* drawPathSegment: one drawLine per pair of neighbouring points *)
drawPathSegment(points) ==
    IF Len(points) < 2 THEN <<>>
    ELSE [i \in 1..(Len(points) - 1) |-> [start |-> points[i], end |-> points[i + 1]]]

(* the last loop: the segments that are stroked *)
DrawnSegments(pathSegments) ==
    LET Long(segment) == Len(segment) > 1
    IN  SelectSeq(pathSegments, Long)

----------------------------------------------------------------------------
(* Annotation Renderer, text (PdfService.addTextToPage) *)

minFontSize == Num(6)
maxFontSize == Num(72)

(* the size with the limits left out *)
actualFontSize_unclamped(baseFontSize, averageScale) == RMul(baseFontSize, averageScale)

(* actualFontSize = Math.max(minFontSize, Math.min(maxFontSize, baseFontSize * averageScale)) *)
actualFontSize(baseFontSize, averageScale) ==
    RMax(minFontSize, RMin(maxFontSize, RMul(baseFontSize, averageScale)))

NoCall == [drawn |-> FALSE, x |-> Undef, y |-> Undef, size |-> Undef]

(* the drawText call addTextToPage makes for textData with text text, or    *)
(* none when the text is blank                                              *)
addTextToPage(textData, text, pageHeight) ==
    LET baseFontSize == OrElse(textData.fontSize, Num(20))
        scaleX == OrElse(textData.manualScaleX, OrElse(textData.scaleX, Num(1)))
        scaleY == OrElse(textData.manualScaleY, OrElse(textData.scaleY, Num(1)))
        averageScale == RDiv(RAdd(scaleX, scaleY), Num(2))
        size == actualFontSize(baseFontSize, averageScale)
    IN  IF trim(text) = <<>> THEN NoCall
        ELSE [drawn |-> TRUE,
              x |-> OrElse(textData.left, Num(0)),
              y |-> RSub(RSub(pageHeight, OrElse(textData.top, Num(0))),
                         RMul(size, Rat(87, 100))),
              size |-> size]

----------------------------------------------------------------------------
(* Annotation Renderer, image (PdfService.addImageToPage) *)

(* imageData.src: whether it starts with data:image/, and whether embedPng  *)
(* / embedJpg can decode it                                                 *)
ImageSrc(dataImage, decodes) == [dataImage |-> dataImage, decodes |-> decodes]

(* renderSignaturePlaceholder: the rectangle, and the caption when          *)
(* Math.min(10, height / 3, width / 8) > 6                                  *)
renderSignaturePlaceholder(x, y, width, height) ==
    LET fontSize == RMin(Num(10), RMin(RDiv(height, Num(3)), RDiv(width, Num(8))))
    IN  [kind |-> "placeholder", x |-> x, y |-> y, width |-> width, height |-> height,
         caption |-> RLt(Num(6), fontSize)]

(* renderSignatureImage: drawImage, or the placeholder when decoding throws *)
renderSignatureImage(src, x, y, width, height) ==
    IF src.decodes
    THEN [kind |-> "image", x |-> x, y |-> y, width |-> width, height |-> height,
          caption |-> FALSE]
    ELSE renderSignaturePlaceholder(x, y, width, height)

(* x left where it is: Math.max(0, x) only *)
adjusted_lowerOnly(v, limit, actual) == RMax(Num(0), v)

(* Math.max(0, Math.min(v, limit - actual)) *)
adjusted(v, limit, actual) == RMax(Num(0), RMin(v, RSub(limit, actual)))

(* what addImageToPage draws for imageData on a page of the given size *)
addImageToPage(imageData, pageWidth, pageHeight) ==
    LET baseWidth == OrElse(imageData.width, Num(120))
        baseHeight == OrElse(imageData.height, Num(60))
        scaleX == OrElse(imageData.scaleX, Num(1))
        scaleY == OrElse(imageData.scaleY, Num(1))
        actualWidth == RMul(baseWidth, scaleX)
        actualHeight == RMul(baseHeight, scaleY)
        x == OrElse(imageData.left, Num(0))
        y == RSub(RSub(pageHeight, OrElse(imageData.top, Num(0))), actualHeight)
        adjustedX == adjusted(x, pageWidth, actualWidth)
        adjustedY == adjusted(y, pageHeight, actualHeight)
    IN  IF imageData.src.dataImage
        THEN renderSignatureImage(imageData.src, adjustedX, adjustedY, actualWidth,
                                  actualHeight)
        ELSE renderSignaturePlaceholder(adjustedX, adjustedY, actualWidth, actualHeight)

----------------------------------------------------------------------------
(* Color Codec (PdfService.parseColor)                                      *)

HexDigits == <<"0", "1", "2", "3", "4", "5", "6", "7", "8", "9",
               "a", "b", "c", "d", "e", "f">>
UpperHexDigits == <<"0", "1", "2", "3", "4", "5", "6", "7", "8", "9",
                    "A", "B", "C", "D", "E", "F">>
IsHexDigit(ch) == \E i \in 1..16 : HexDigits[i] = ch \/ UpperHexDigits[i] = ch
HexDigitValue(ch) ==
    (CHOOSE i \in 1..16 : HexDigits[i] = ch \/ UpperHexDigits[i] = ch) - 1

(* a JS number that may be NaN *)
NaN == [nan |-> TRUE, v |-> Undef]
Finite(q) == [nan |-> FALSE, v |-> q]

(* String.prototype.slice(start, end) for 0 <= start <= end *)
slice(s, start, end) ==
    IF start >= Len(s) THEN <<>>
    ELSE SubSeq(s, start + 1, IF end < Len(s) THEN end ELSE Len(s))

HexPrefixLen(s) ==
    IF \A i \in 1..Len(s) : IsHexDigit(s[i]) THEN Len(s)
    ELSE (CHOOSE i \in 1..Len(s) :
              ~IsHexDigit(s[i]) /\ \A j \in 1..(i - 1) : IsHexDigit(s[j])) - 1

RECURSIVE HexValue(_, _)
HexValue(s, acc) ==
    IF s = <<>> THEN acc ELSE HexValue(Tail(s), 16 * acc + HexDigitValue(Head(s)))

(* parseInt(s, 16): leading white space is skipped, then an optional sign,  *)
(* then an optional 0x, then the longest run of hex digits; NaN when that   *)
(* run is empty, and whatever follows the run is ignored                    *)
parseInt16(s) ==
    LET t1 == TrimLeft(s)
        negative == t1 # <<>> /\ Head(t1) = "-"
        t2 == IF t1 # <<>> /\ Head(t1) \in {"-", "+"} THEN Tail(t1) ELSE t1
        t3 == IF Len(t2) >= 2 /\ t2[1] = "0" /\ t2[2] \in {"x", "X"}
              THEN SubSeq(t2, 3, Len(t2)) ELSE t2
        n == HexPrefixLen(t3)
        magnitude == HexValue(SubSeq(t3, 1, n), 0)
    IN  IF n = 0 THEN [nan |-> TRUE, v |-> 0]
        ELSE [nan |-> FALSE, v |-> IF negative THEN 0 - magnitude ELSE magnitude]

(* parseInt(...) / 255 *)
Channel(s) ==
    LET n == parseInt16(s) IN IF n.nan THEN NaN ELSE Finite(Rat(n.v, 255))

Black == [r |-> Finite(Num(0)), g |-> Finite(Num(0)), b |-> Finite(Num(0))]

parseColor(colorString) ==
    IF colorString # <<>> /\ Head(colorString) = "#"
    THEN LET hex == slice(colorString, 1, Len(colorString))
         IN  [r |-> Channel(slice(hex, 0, 2)),
              g |-> Channel(slice(hex, 2, 4)),
              b |-> Channel(slice(hex, 4, 6))]
    ELSE Black

----------------------------------------------------------------------------
(* Annotation Renderer, path (PdfService.addPathToPage)                     *)

Rectangle(x, y, width, height) ==
    [kind |-> "rectangle", x |-> x, y |-> y, width |-> width, height |-> height,
     lines |-> <<>>]
Lines(lines) ==
    [kind |-> "lines", x |-> 0, y |-> 0, width |-> 0, height |-> 0, lines |-> lines]

(* renderPathBoundingBox: the rectangle, when the scaled size is positive.  *)
(* left and top are present in every entry (the test !== undefined passes). *)
renderPathBoundingBox(pathData, pageHeight) ==
    LET scaleX == IF pathData.scaleX = 0 THEN 1 ELSE pathData.scaleX
        scaleY == IF pathData.scaleY = 0 THEN 1 ELSE pathData.scaleY
        actualWidth == pathData.width * scaleX
        actualHeight == pathData.height * scaleY
    IN  IF actualWidth > 0 /\ actualHeight > 0
        THEN <<Rectangle(pathData.left, pageHeight - pathData.top - actualHeight,
                         actualWidth, actualHeight)>>
        ELSE <<>>

(* the drawLine calls of the segments that are stroked *)
StrokedLines(drawn) == FlattenSeqs([s \in 1..Len(drawn) |-> drawPathSegment(drawn[s])])

LineMarks(lines) == IF lines = <<>> THEN <<>> ELSE <<Lines(lines)>>

(* renderSVGPath once parseSVGPath has returned or thrown: draw, or the     *)
(* bounding box from the catch                                              *)
RenderParsed(parsed, pathData, pageHeight) ==
    IF parsed.thrown THEN renderPathBoundingBox(pathData, pageHeight)
    ELSE LineMarks(StrokedLines(DrawnSegments(
             drawSVGPathCommands(parsed.commands, pathData, pageHeight).pathSegments)))

(* renderSVGPath: parse and draw; the bounding box when the parser throws *)
renderSVGPath(pathData, pageHeight) ==
    RenderParsed(parseSVGPath(pathData.path), pathData, pageHeight)

(* pathData.path && (a string of length > 0 || an object with own keys) *)
HasPathData(path) ==
    /\ ~Falsy(path)
    /\ \/ path.t = "string" /\ Len(path.str) > 0
       \/ path.t = "array" /\ Len(path.arr) > 0
       \/ path.t = "object" /\ Len(path.obj) > 0

(* the marks addPathToPage leaves on the page; its catch lets nothing out *)
addPathToPage(pathData, pageHeight) ==
    IF HasPathData(pathData.path)
    THEN renderSVGPath(pathData, pageHeight)
    ELSE renderPathBoundingBox(pathData, pageHeight)

----------------------------------------------------------------------------
(* Each specification runs one component; the variables of the others rest. *)

NoObj == [type |-> "none", left |-> Undef, top |-> Undef, scaleX |-> Undef,
          scaleY |-> Undef, strokeWidth |-> Undef, fontSize |-> Undef,
          baseFontSize |-> Undef, manualScaleX |-> Undef, manualScaleY |-> Undef]

NormIdle ==
    /\ nPhase = "off"
    /\ nKeep = FALSE
    /\ nScale = Num(1)
    /\ nObj = NoObj
    /\ nEntry = NoObj
    /\ nPrevLive = NoObj
    /\ nStoreScale = Undef
    /\ nFirstEntry = NoObj
    /\ nEvents = 0
    /\ nZoomOnly = TRUE

NormFrame == UNCHANGED <<parseVars, flatVars, textVars, editorVars, imageVars, colorVars, pathVars, saveVars, webVars>>

ParseIdle ==
    /\ pPhase = "off"
    /\ pCmds = <<>>
    /\ pForm = "none"
    /\ pInput = JsUndefined
    /\ pOut = Returned(<<>>)

NoPathData == [left |-> 0, top |-> 0, scaleX |-> 1, scaleY |-> 1, path |-> JsUndefined]
NoFlatOut == [pathSegments |-> <<>>, current |-> Point(FNum(0), FNum(0))]

FlatIdle ==
    /\ fPhase = "off"
    /\ fCmds = <<>>
    /\ fData = NoPathData
    /\ fPageHeight = 0
    /\ fStream = <<>>
    /\ fOut = NoFlatOut
    /\ fLines = <<>>

FlatFrame == UNCHANGED <<normVars, parseVars, textVars, editorVars, imageVars, colorVars, pathVars, saveVars, webVars>>

ParseFrame == UNCHANGED <<normVars, flatVars, textVars, editorVars, imageVars, colorVars, pathVars, saveVars, webVars>>

TextIdle ==
    /\ tPhase = "off"
    /\ tData = NoObj
    /\ tText = <<>>
    /\ tPageHeight = Undef
    /\ tCall = NoCall

TextFrame == UNCHANGED <<normVars, parseVars, flatVars, editorVars, imageVars, colorVars, pathVars, saveVars, webVars>>

DesktopWindow(fit) == [mobile |-> FALSE, fit |-> fit]
MobileWindow(fit) == [mobile |-> TRUE, fit |-> fit]

EditorIdle ==
    /\ eKeep = FALSE
    /\ eWindow = DesktopWindow(Num(1))
    /\ eBase = Num(1)
    /\ eZoom = Num(1)
    /\ eScale = Num(1)
    /\ eShown = Num(1)
    /\ ePage = 0
    /\ ePageObjects = <<>>
    /\ eCanvas = <<>>
    /\ eHasCanvas = FALSE
    /\ eListening = FALSE
    /\ eSwitching = FALSE
    /\ eRestoring = FALSE
    /\ eSkipSave = FALSE
    /\ ePc = "off"
    /\ eTarget = 0
    /\ ePending = <<>>
    /\ eFinished = 0
    /\ ePlaced = <<>>
    /\ eTimers = 0
    /\ eResize = FALSE
    /\ eSignature = FALSE
    /\ eSubmit = "idle"
    /\ eSent = <<>>
    /\ eEvents = 0
    /\ eIds = 0

EditorFrame == UNCHANGED <<normVars, parseVars, flatVars, textVars, imageVars, colorVars, pathVars, saveVars, webVars>>

NoImageData == [left |-> Undef, top |-> Undef, width |-> Undef, height |-> Undef,
                scaleX |-> Undef, scaleY |-> Undef, src |-> ImageSrc(FALSE, FALSE)]
NoPageSize == [width |-> Undef, height |-> Undef]
NoImageCall == [kind |-> "none", x |-> Undef, y |-> Undef, width |-> Undef,
                height |-> Undef, caption |-> FALSE]

ImageIdle ==
    /\ iPhase = "off"
    /\ iData = NoImageData
    /\ iPageSize = NoPageSize
    /\ iCall = NoImageCall

ImageFrame == UNCHANGED <<normVars, parseVars, flatVars, textVars, editorVars, colorVars, pathVars, saveVars, webVars>>

NoColor == [r |-> [nan |-> FALSE, v |-> Undef], g |-> [nan |-> FALSE, v |-> Undef],
            b |-> [nan |-> FALSE, v |-> Undef]]
ColorIdle ==
    /\ cPhase = "off"
    /\ cColor = <<>>
    /\ cResult = NoColor

ColorFrame == UNCHANGED <<normVars, parseVars, flatVars, textVars, editorVars, imageVars, pathVars, saveVars, webVars>>

NoPathEntry == [left |-> 0, top |-> 0, scaleX |-> 1, scaleY |-> 1, width |-> 0, height |-> 0,
                path |-> JsUndefined]
PathIdle ==
    /\ rPhase = "off"
    /\ rData = NoPathEntry
    /\ rPageHeight = 0
    /\ rMarks = <<>>
    /\ rRaised = FALSE

PathFrame == UNCHANGED <<normVars, parseVars, flatVars, textVars, editorVars, imageVars, colorVars, saveVars, webVars>>

NoFile == [written |-> FALSE, marks |-> <<>>]
SaveIdle ==
    /\ sPc = "off"
    /\ sPages = <<>>
    /\ sKey = 0
    /\ sAnn = 0
    /\ sMarks = <<>>
    /\ sDone = {}
    /\ sFile = NoFile
    /\ sEscaped = FALSE

SaveFrame == UNCHANGED <<normVars, parseVars, flatVars, textVars, editorVars, imageVars, colorVars, pathVars, webVars>>

----------------------------------------------------------------------------
(* Flatten Orchestrator (PdfService.addAnnotationsToPage)                   *)

(* one mark on a page: a drawText call, the marks of a path, or an image    *)
TextMark(call) == [kind |-> TextType, text |-> call, path |-> <<>>, image |-> NoImageCall]
PathMark(marks) == [kind |-> PathType, text |-> NoCall, path |-> marks, image |-> NoImageCall]
ImageMark(call) == [kind |-> ImageType, text |-> NoCall, path |-> <<>>, image |-> call]

Drew(marks) == [thrown |-> FALSE, marks |-> marks]
Threw == [thrown |-> TRUE, marks |-> <<>>]

(* addTextToPage as the orchestrator sees it: parseColor(textData.fill ||   *)
(* '#000000') throws for a fill that is not a string, text.trim() for a     *)
(* text that is not a string; both are rethrown by its catch                *)
TextResult(objData, pageHeight) ==
    LET fill == IF Falsy(objData.fill) THEN JsString(<<"#", "0", "0", "0", "0", "0", "0">>)
                ELSE objData.fill
        text == IF Falsy(objData.text) THEN JsString(<<>>) ELSE objData.text
        call == addTextToPage(objData.textData, text.str, Num(pageHeight))
    IN  IF fill.t # "string" \/ text.t # "string" THEN Threw
        ELSE IF call.drawn THEN Drew(<<TextMark(call)>>)
        ELSE Drew(<<>>)

(* addPathToPage as the orchestrator sees it: its catch lets nothing out *)
PathResult(marks) == Drew(IF marks = <<>> THEN <<>> ELSE <<PathMark(marks)>>)

(* the body of the try block for one objData *)
Dispatch(objData, pageSize) ==
    IF objData.null THEN Threw
    ELSE IF objData.type = TextType THEN TextResult(objData, pageSize.height)
    ELSE IF objData.type = PathType THEN
        PathResult(addPathToPage(objData.pathData, pageSize.height))
    ELSE IF objData.type = ImageType THEN
        Drew(<<ImageMark(addImageToPage(objData.imageData, Num(pageSize.width),
                                        Num(pageSize.height)))>>)
    ELSE Drew(<<>>)

(* the loop without its try / catch: what an annotation throws gets out *)
Escapes_noCatch(result) == result.thrown

(* catch (error) { logger.error(...) }: nothing gets out of the loop body *)
Escapes(result) == FALSE

(* the marks in the opposite order: each annotation drawn below the others *)
Commit_below(marks, result) == result.marks \o marks

(* the page after one annotation: its marks on top of the ones before *)
Commit(marks, result) == marks \o result.marks

(* for (const pageNumStr in modifications.pages) with no page left to visit *)
PagesLeft_none(pages, key) == FALSE

(* for (const pageNumStr in modifications.pages): a page number is left *)
PagesLeft(pages, key) == key <= Len(pages)

WebIdle ==
    /\ wNow = 0
    /\ wEnv = <<>>
    /\ wSessions = <<>>
    /\ wDocs = <<>>
    /\ wFiles = <<>>
    /\ wHooks = <<>>
    /\ wReqs = <<>>
    /\ wTimers = {}

WebFrame == UNCHANGED <<normVars, parseVars, flatVars, textVars, editorVars, imageVars, colorVars, pathVars, saveVars>>

----------------------------------------------------------------------------
(* The normalizer as a state machine: one annotation is stored and restored *)
(* across zoom / resize / page events.                                      *)

MaxZoomEvents == 3

(* scale = baseScale * zoomLevel: 0.8 (mobile minimum), 1.0, 1.25, 1.5 *)
Scales == {Rat(4, 5), Num(1), Rat(5, 4), Rat(3, 2)}
(* factors a user gives an object with the resize handles *)
ManualScales == {Num(1), Num(2), Rat(1, 2)}
Lefts == {Num(0), Num(100)}
Tops == {Num(60)}

(* getScaledFontSize *)
getScaledFontSize(baseFontSize, scale) == RMul(baseFontSize, OrElse(scale, Num(1)))

(* getCurrentBrushWidth *)
getCurrentBrushWidth(scale) == RMul(Num(2), OrElse(scale, Num(1)))

(* a text object as addTextOnClick creates it, resized to (sx, sy) *)
NewText(left, top, sx, sy, scale) ==
    [type |-> TextType, left |-> left, top |-> top, scaleX |-> sx, scaleY |-> sy,
     strokeWidth |-> Num(1), fontSize |-> getScaledFontSize(Num(20), scale),
     baseFontSize |-> Undef, manualScaleX |-> Undef, manualScaleY |-> Undef]

(* a free-drawn path, resized to (sx, sy) *)
NewPath(left, top, sx, sy, scale) ==
    [type |-> PathType, left |-> left, top |-> top, scaleX |-> sx, scaleY |-> sy,
     strokeWidth |-> getCurrentBrushWidth(scale), fontSize |-> Undef,
     baseFontSize |-> Undef, manualScaleX |-> Undef, manualScaleY |-> Undef]

(* a signature image as the signature modal adds it, resized by (sx, sy) *)
NewImage(left, top, sx, sy) ==
    [type |-> ImageType, left |-> left, top |-> top,
     scaleX |-> RMul(Rat(1, 2), sx), scaleY |-> RMul(Rat(1, 2), sy),
     strokeWidth |-> Num(0), fontSize |-> Undef,
     baseFontSize |-> Undef, manualScaleX |-> Undef, manualScaleY |-> Undef]

NewObjects(scale) ==
    { NewText(l, t, m, m, scale) : l \in Lefts, t \in Tops, m \in ManualScales }
    \cup { NewPath(l, t, sx, sy, scale) :
              l \in Lefts, t \in Tops, sx \in ManualScales, sy \in ManualScales }
    \cup { NewImage(l, t, sx, sy) :
              l \in Lefts, t \in Tops, sx \in ManualScales, sy \in ManualScales }

NormInit ==
    /\ WebIdle
    /\ SaveIdle
    /\ PathIdle
    /\ ColorIdle
    /\ ImageIdle
    /\ ParseIdle
    /\ FlatIdle
    /\ TextIdle
    /\ EditorIdle
    /\ nPhase = "live"
    /\ nKeep \in BOOLEAN
    /\ nScale \in Scales
    /\ nObj \in NewObjects(nScale)
    /\ nEntry = NoObj
    /\ nPrevLive = NoObj
    /\ nStoreScale = Undef
    /\ nFirstEntry = NoObj
    /\ nEvents = 0
    /\ nZoomOnly = TRUE

(* saveCurrentPageObjects (page switch, object:modified, submit) *)
NSaveCurrent ==
    /\ nPhase = "live"
    /\ nEntry' = storeObjData(toObject(nObj, nKeep), nScale)
    /\ nPrevLive' = nObj
    /\ nStoreScale' = nScale
    /\ nFirstEntry' = IF nFirstEntry = NoObj THEN nEntry' ELSE nFirstEntry
    /\ nPhase' = "stored"
    /\ nZoomOnly' = FALSE
    /\ UNCHANGED <<nKeep, nObj, nScale, nEvents>>
    /\ NormFrame

(* saveCurrentPageObjectsWithScale(oldScale) (setZoom, window resize) *)
NSaveWithScale ==
    /\ nPhase = "live"
    /\ nEntry' = storeObjDataWithScale(toObject(nObj, nKeep), nScale)
    /\ nPrevLive' = nObj
    /\ nStoreScale' = nScale
    /\ nFirstEntry' = IF nFirstEntry = NoObj THEN nEntry' ELSE nFirstEntry
    /\ nPhase' = "stored"
    /\ UNCHANGED <<nKeep, nObj, nScale, nEvents, nZoomOnly>>
    /\ NormFrame

(* renderPage at scale s followed by restorePageObjects: the stored entry  *)
(* is copied, scaled and handed to the fabric constructor as its options    *)
NRestore(s) ==
    /\ nPhase = "stored"
    /\ nEvents < MaxZoomEvents
    /\ nScale' = s
    /\ nObj' = scaleObjectForCurrentZoom(nEntry, s)
    /\ nPhase' = "live"
    /\ nEvents' = nEvents + 1
    /\ UNCHANGED <<nKeep, nEntry, nPrevLive, nStoreScale, nFirstEntry, nZoomOnly>>
    /\ NormFrame

NormNext ==
    \/ NSaveCurrent
    \/ NSaveWithScale
    \/ \E s \in Scales : NRestore(s)

SpecNorm == NormInit /\ [][NormNext]_vars

(* the live geometry the normalizer is responsible for *)
LiveGeometry(o) == <<o.left, o.top, o.scaleX, o.scaleY, o.strokeWidth, o.fontSize>>

(* a stored entry as its consumers read it: for text the resize factors    *)
(* are manualScaleX/Y, or scaleX/Y when those are missing                   *)
EntryGeometry(e) ==
    IF e.type = TextType
    THEN <<e.left, e.top, e.strokeWidth, e.fontSize,
           OrElse(e.manualScaleX, OrElse(e.scaleX, Num(1))),
           OrElse(e.manualScaleY, OrElse(e.scaleY, Num(1)))>>
    ELSE <<e.left, e.top, e.strokeWidth, e.fontSize, e.scaleX, e.scaleY>>

(* C1: storing a live object at scale s and restoring the stored entry at   *)
(* the same scale s gives back the live left, top, scaleX, scaleY,          *)
(* strokeWidth and fontSize, for text, path and image and every s.          *)
C1_RoundTrip ==
    (nPhase = "live" /\ nEvents > 0 /\ nScale = nStoreScale)
        => LiveGeometry(nObj) = LiveGeometry(nPrevLive)

(* a resized text object went through store and restore at a scale # 1 *)
C1_Witness ==
    /\ nPhase = "live" /\ nEvents > 0 /\ nScale = nStoreScale
    /\ nScale = Rat(5, 4)
    /\ nObj.type = TextType
    /\ nObj.scaleX = Num(2)
    /\ nObj.fontSize = Num(25)

(* C2: zoom / resize events (store at the old scale, restore at the new)    *)
(* never change a stored entry: every later entry equals the first one.     *)
C2_ZoomKeepsEntry ==
    (nPhase = "stored" /\ nZoomOnly)
        => EntryGeometry(nEntry) = EntryGeometry(nFirstEntry)

(* C4: a text object stored at s and restored at s' has font size           *)
(* (live font size / s) * s' and keeps its own scaleX / scaleY.             *)
C4_TextRestore ==
    (nPhase = "live" /\ nEvents > 0 /\ nObj.type = TextType)
        => /\ nObj.fontSize = RMul(RDiv(nPrevLive.fontSize, nStoreScale), nScale)
           /\ nObj.scaleX = nPrevLive.scaleX
           /\ nObj.scaleY = nPrevLive.scaleY

----------------------------------------------------------------------------
(* The parser as a state machine: a command list is encoded in one of the   *)
(* accepted shapes and handed to parseSVGPath.                              *)

MaxPathCmds == 2

Command(c, args) == [cmd |-> c, args |-> args]

PointArgs == {<<0, 0>>, <<10, 10>>, <<-5, 7>>}
QuadArgs == {<<5, 10, 10, 0>>}
CubicArgs == {<<1, 2, 3, 4, 15, 6>>}

Commands ==
    { Command(c, a) : c \in {"M", "L"}, a \in PointArgs }
    \cup { Command("Q", a) : a \in QuadArgs }
    \cup { Command("C", a) : a \in CubicArgs }
    \cup { Command("Z", <<>>) }

CommandLists == UNION { [1..n -> Commands] : n \in 1..MaxPathCmds }

(* the canonical sequence of a command list: each letter, then its operands *)
Canonical(cmds) ==
    FlattenSeqs([i \in 1..Len(cmds) |->
        <<StrTok(<<cmds[i].cmd>>)>> \o
        [j \in 1..Len(cmds[i].args) |-> NumTok(cmds[i].args[j])]])

RECURSIVE FormatNat(_)
FormatNat(n) ==
    IF n < 10 THEN <<Digits[n + 1]>> ELSE Append(FormatNat(n \div 10), Digits[(n % 10) + 1])

(* the decimal text of an integer *)
FormatInt(n) == IF n < 0 THEN <<"-">> \o FormatNat(-n) ELSE FormatNat(n)

(* how an encoder may deviate from the plain form: the letter in lower      *)
(* case, no blank between the letter and its first operand, one operand     *)
(* more (extra = 1) or less (extra = -1) than the command takes             *)
PlainStyle == [lower |-> FALSE, compact |-> FALSE, extra |-> 0]
Styles == [lower : BOOLEAN, compact : BOOLEAN, extra : {-1, 0, 1}]

StyledArgs(c, style) ==
    IF style.extra = 1 THEN Append(c.args, 3)
    ELSE IF style.extra = -1 /\ Len(c.args) > 0 THEN SubSeq(c.args, 1, Len(c.args) - 1)
    ELSE c.args

StyledLetter(c, style) ==
    IF style.lower THEN CHOOSE l \in LowerLetters : toUpperCaseChar(l) = c.cmd ELSE c.cmd

(* [letter, operand, ...] *)
TupleOf(c, style) ==
    LET a == StyledArgs(c, style)
    IN  TupleElem(<<StrTok(<<StyledLetter(c, style)>>)>> \o [j \in 1..Len(a) |-> NumTok(a[j])])

(* the array-of-tuples form *)
ArrayForm(cmds, style) == JsArray([i \in 1..Len(cmds) |-> TupleOf(cmds[i], style)])

(* the keyed form: property "i-1" holds tuple i; order[k] is the k-th       *)
(* property inserted.  Object.keys lists integer keys in ascending order    *)
(* whatever the insertion order.                                            *)
KeyedForm(cmds, order) ==
    LET inserted == [k \in 1..Len(cmds) |->
                        <<FormatInt(order[k] - 1), TupleOf(cmds[order[k]], PlainStyle)>>]
        ownKeys == SortedKeyPositions(inserted, 1..Len(inserted))
    IN  JsObject([k \in 1..Len(cmds) |-> inserted[ownKeys[k]]])

RECURSIVE JoinArgs(_, _)
JoinArgs(args, sep) ==
    IF args = <<>> THEN <<>> ELSE <<sep>> \o FormatInt(Head(args)) \o JoinArgs(Tail(args), sep)

(* one command of an SVG path string *)
CommandText(c, sep, style) ==
    LET text == JoinArgs(StyledArgs(c, style), sep)
    IN  <<StyledLetter(c, style)>> \o
        (IF style.compact /\ text # <<>> THEN Tail(text) ELSE text)

(* the SVG path string: the commands separated by blanks *)
RECURSIVE StringText(_, _, _)
StringText(cmds, sep, style) ==
    IF cmds = <<>> THEN <<>>
    ELSE CommandText(Head(cmds), sep, style) \o
         (IF Len(cmds) > 1 THEN <<" ">> ELSE <<>>) \o StringText(Tail(cmds), sep, style)

StringForm(cmds, sep, style) == JsString(StringText(cmds, sep, style))

Orders(n) == { o \in [1..n -> 1..n] : \A i, j \in 1..n : o[i] = o[j] => i = j }

(* "", null, undefined, {}, [], a number, a boolean, a blank string *)
EmptyInputs ==
    {JsString(<<>>), JsNull, JsUndefined, JsObject(<<>>), JsArray(<<>>),
     JsNumber(0), JsNumber(5), JsBoolean(TRUE), JsBoolean(FALSE)}

(* inputs whose tuples are not of the [letter, number...] shape *)
OddInputs ==
    {JsArray(<<TupleElem(<<NumTok(1), NumTok(2)>>)>>),
     JsArray(<<ScalarElem, TupleElem(<<>>)>>),
     JsObject(<<<<FormatInt(0), ScalarElem>>>>),
     JsObject(<<<<FormatInt(0), TupleElem(<<NumTok(1)>>)>>>>),
     JsString(<<" ", " ">>)}

ParseInit ==
    /\ WebIdle
    /\ SaveIdle
    /\ PathIdle
    /\ ColorIdle
    /\ ImageIdle
    /\ NormIdle
    /\ FlatIdle
    /\ TextIdle
    /\ EditorIdle
    /\ pPhase = "idle"
    /\ pCmds \in CommandLists
    /\ pForm = "none"
    /\ pInput = JsUndefined
    /\ pOut = Returned(<<>>)

Choose(form, input) ==
    /\ pPhase \in {"idle", "parsed"}
    /\ pPhase' = "ready"
    /\ pForm' = form
    /\ pInput' = input
    /\ UNCHANGED <<pCmds, pOut>>
    /\ ParseFrame

(* the client sends the fabric toObject() array of tuples *)
PGiveArray == Choose("array", ArrayForm(pCmds, PlainStyle))

(* a legacy client sends the object with numbered keys *)
PGiveKeyed == \E o \in Orders(Len(pCmds)) : Choose("keyed", KeyedForm(pCmds, o))

(* a client sends the SVG path string, operands separated by blanks or commas *)
PGiveString == \E sep \in {" ", ","} : Choose("string", StringForm(pCmds, sep, PlainStyle))

(* a client sends a string or an array that deviates from the plain form *)
PGiveVariant ==
    \E style \in Styles \ {PlainStyle} :
        \/ Choose("variant", StringForm(pCmds, " ", style))
        \/ Choose("variant", ArrayForm(pCmds, [style EXCEPT !.compact = FALSE]))

(* the path property is empty or of no path shape *)
PGiveEmpty == \E v \in EmptyInputs : Choose("empty", v)

PGiveOdd == \E v \in OddInputs : Choose("odd", v)

(* renderSVGPath: const pathCommands = this.parseSVGPath(pathData.path) *)
PParse ==
    /\ pPhase = "ready"
    /\ pOut' = parseSVGPath(pInput)
    /\ pPhase' = "parsed"
    /\ UNCHANGED <<pCmds, pForm, pInput>>
    /\ ParseFrame

ParseNext ==
    \/ PGiveArray
    \/ PGiveKeyed
    \/ PGiveString
    \/ PGiveVariant
    \/ PGiveEmpty
    \/ PGiveOdd
    \/ PParse

SpecParse == ParseInit /\ [][ParseNext]_vars

IsUpperLetter(tok) == tok.k = "str" /\ Len(tok.c) = 1 /\ tok.c[1] \in UpperLetters

(* the number of operands a command takes; -1: not fixed by the grammar *)
OperandCount(letter) ==
    CASE letter \in {"M", "L"} -> 2 [] letter = "Q" -> 4 [] letter = "C" -> 6
      [] letter = "Z" -> 0 [] OTHER -> -1

(* the numbers that follow position i up to the next command token *)
RECURSIVE NumbersAfter(_, _)
NumbersAfter(stream, i) ==
    IF i + 1 > Len(stream) \/ stream[i + 1].k = "str" THEN 0
    ELSE 1 + NumbersAfter(stream, i + 1)

WellFormed(stream) ==
    /\ stream # <<>> => stream[1].k = "str"
    /\ \A i \in 1..Len(stream) :
          /\ stream[i].k # "nan"
          /\ stream[i].k = "str" =>
                /\ IsUpperLetter(stream[i])
                /\ OperandCount(stream[i].c[1]) >= 0
                      => NumbersAfter(stream, i) = OperandCount(stream[i].c[1])

(* C5: the array-of-tuples form, the keyed form (keys inserted in any       *)
(* order) and the SVG path string of a command list all parse to the same   *)
(* canonical sequence: each letter followed by its operands.                *)
C5_EncodingsAgree ==
    (pPhase = "parsed" /\ pForm \in {"array", "keyed", "string"})
        => pOut = Returned(Canonical(pCmds))

(* the keyed form {"1": ["L",10,10], "0": ["M",0,0]} has been parsed *)
C5_Witness ==
    /\ pPhase = "parsed" /\ pForm = "keyed"
    /\ pCmds = <<Command("M", <<0, 0>>), Command("L", <<10, 10>>)>>
    /\ pOut.commands = <<StrTok(<<"M">>), NumTok(0), NumTok(0),
                          StrTok(<<"L">>), NumTok(10), NumTok(10)>>

(* C6: whatever parseSVGPath returns is well formed: every command token is *)
(* one upper-case letter, M and L are followed by exactly 2 numbers, Q by   *)
(* 4, C by 6 and Z by none.                                                 *)
C6_WellFormedStream ==
    (pPhase = "parsed" /\ ~pOut.thrown) => WellFormed(pOut.commands)

(* C7: "", null, undefined, {}, [] and values that are no array, object or  *)
(* string parse to the empty sequence, and nothing is thrown.               *)
C7_EmptyInputs ==
    (pPhase = "parsed" /\ pForm = "empty") => pOut = Returned(<<>>)

(* null has been parsed *)
C7_Witness == pPhase = "parsed" /\ pForm = "empty" /\ pInput = JsNull

----------------------------------------------------------------------------
(* The flattener as a state machine: renderSVGPath parses the path of a     *)
(* path annotation and flattens the command stream.                         *)

MaxFlatCmds == 3

FlatCommandLists == UNION { [1..n -> Commands] : n \in 1..MaxFlatCmds }

(* left, top, scaleX, scaleY of the annotation and the page height; the     *)
(* first is the identity transform on a page of height 0                    *)
FlatTransforms ==
    { <<0, 0, 1, 1, 0>>, <<100, 50, 2, 3, 800>>, <<30, 20, 1, 2, 800>> }

(* runs of H, V, S, T and A commands as an SVG path string writes them, in  *)
(* upper or in lower case                                                   *)
UnsupportedRuns ==
    { [cmds |-> <<Command("H", <<10>>)>>, lower |-> FALSE],
      [cmds |-> <<Command("V", <<7>>)>>, lower |-> TRUE],
      [cmds |-> <<Command("S", <<1, 2, 3, 4>>)>>, lower |-> FALSE],
      [cmds |-> <<Command("T", <<5, 5>>), Command("A", <<5, 5, 0, 0, 1, 10, 10>>)>>,
       lower |-> TRUE] }

(* two pieces of a path string, a blank between them *)
Joined(a, b) == IF a = <<>> THEN b ELSE IF b = <<>> THEN a ELSE a \o <<" ">> \o b

(* the SVG path strings of cmds with one such run put in at any place *)
StringsWithUnsupported(cmds) ==
    { JsString(Joined(Joined(StringText(SubSeq(cmds, 1, p), " ", PlainStyle),
                             StringText(run.cmds, " ", [PlainStyle EXCEPT !.lower = run.lower])),
                      StringText(SubSeq(cmds, p + 1, Len(cmds)), " ", PlainStyle))) :
        p \in 0..Len(cmds), run \in UnsupportedRuns }

FlatInit ==
    /\ WebIdle
    /\ SaveIdle
    /\ PathIdle
    /\ ColorIdle
    /\ ImageIdle
    /\ NormIdle
    /\ ParseIdle
    /\ TextIdle
    /\ EditorIdle
    /\ fPhase = "start"
    /\ fCmds \in FlatCommandLists
    /\ \E tr \in FlatTransforms :
          \E path \in {ArrayForm(fCmds, PlainStyle)}
                        \cup (IF tr[1] = 100 /\ Len(fCmds) <= MaxPathCmds
                              THEN StringsWithUnsupported(fCmds) ELSE {}) :
              /\ fData = [left |-> tr[1], top |-> tr[2], scaleX |-> tr[3], scaleY |-> tr[4],
                          path |-> path]
              /\ fPageHeight = tr[5]
    /\ fStream = <<>>
    /\ fOut = NoFlatOut
    /\ fLines = <<>>

(* renderSVGPath: const pathCommands = this.parseSVGPath(pathData.path) *)
FParse ==
    /\ fPhase = "start"
    /\ ~parseSVGPath(fData.path).thrown
    /\ fStream' = parseSVGPath(fData.path).commands
    /\ fPhase' = "parsed"
    /\ UNCHANGED <<fCmds, fData, fPageHeight, fOut, fLines>>
    /\ FlatFrame

(* renderSVGPath: await this.drawSVGPathCommands(page, pathCommands, ...) *)
FDraw ==
    /\ fPhase = "parsed"
    /\ fOut' = drawSVGPathCommands(fStream, fData, fPageHeight)
    /\ fLines' = LET drawn == DrawnSegments(fOut'.pathSegments)
                 IN  FlattenSeqs([s \in 1..Len(drawn) |-> drawPathSegment(drawn[s])])
    /\ fPhase' = "drawn"
    /\ UNCHANGED <<fCmds, fData, fPageHeight, fStream>>
    /\ FlatFrame

FlatNext ==
    \/ FParse
    \/ FDraw

SpecFlat == FlatInit /\ [][FlatNext]_vars

(* --- what the flattener is to produce, said over the command list --- *)

SetMin(S) == CHOOSE m \in S : \A x \in S : m <= x

(* the operands of the M, L, Q and C commands at the x (off = 1) or y       *)
(* (off = 2) places                                                         *)
OperandsAt(cmds, off) ==
    UNION { { cmds[i].args[j] : j \in { k \in {off, off + 2, off + 4} : k <= Len(cmds[i].args) } }
            : i \in 1..Len(cmds) }

(* x = objectLeft + (px - minX) * scaleX, y = pageHeight - (objectTop + (py - minY) * scaleY) *)
MappedPoint(px, py, cmds, data, pageHeight) ==
    Point(FNum(Milli(data.left + (px - SetMin(OperandsAt(cmds, 1))) * data.scaleX)),
          FNum(Milli(pageHeight -
                     (data.top + (py - SetMin(OperandsAt(cmds, 2))) * data.scaleY))))

(* the mapped M and L points, in stream order *)
RECURSIVE MoveLinePoints(_, _, _, _)
MoveLinePoints(rest, cmds, data, pageHeight) ==
    IF rest = <<>> THEN <<>>
    ELSE (IF Head(rest).cmd \in {"M", "L"}
          THEN <<MappedPoint(Head(rest).args[1], Head(rest).args[2], cmds, data, pageHeight)>>
          ELSE <<>>)
         \o MoveLinePoints(Tail(rest), cmds, data, pageHeight)

RECURSIVE IsSubsequence(_, _)
IsSubsequence(a, b) ==
    IF a = <<>> THEN TRUE
    ELSE IF b = <<>> THEN FALSE
    ELSE IF Head(a) = Head(b) THEN IsSubsequence(Tail(a), Tail(b))
    ELSE IsSubsequence(a, Tail(b))

OnlyMoveLine(cmds) == \A i \in 1..Len(cmds) : cmds[i].cmd \in {"M", "L"}

(* C8: with (minX, minY) the minimum over all M, L, Q and C operands, every *)
(* M and L operand pair (px, py) is in the polylines, in stream order, as   *)
(* the point (objectLeft + (px - minX) * scaleX,                            *)
(* pageHeight - (objectTop + (py - minY) * scaleY)); a path of M and L      *)
(* commands only consists of exactly these points, and the corner           *)
(* (minX, minY) maps to (objectLeft, pageHeight - objectTop).               *)
C8_CoordinateMap ==
    fPhase = "drawn" =>
        LET expected == MoveLinePoints(fCmds, fCmds, fData, fPageHeight)
            points == FlattenSeqs(fOut.pathSegments)
            minX == BoundingMin(fStream, 1, 0, Infinity)
            minY == BoundingMin(fStream, 1, 1, Infinity)
        IN  /\ IsSubsequence(expected, points)
            /\ OnlyMoveLine(fCmds) => points = expected
            /\ OperandsAt(fCmds, 1) # {} =>
                   /\ minX = [unset |-> FALSE, nan |-> FALSE,
                              v |-> SetMin(OperandsAt(fCmds, 1))]
                   /\ minY = [unset |-> FALSE, nan |-> FALSE,
                              v |-> SetMin(OperandsAt(fCmds, 2))]
                   /\ TransformX(FNum(minX.v), minX, PathDefaults(fData))
                          = FNum(Milli(fData.left))
                   /\ TransformY(FNum(minY.v), minY, PathDefaults(fData), fPageHeight)
                          = FNum(Milli(fPageHeight - fData.top))

(* M(-5,7) L(10,10) L(0,0) scaled by 2 and 3 at (100, 50) on a page of      *)
(* height 800: minX = -5, minY = 0, so L(0,0) lands on x = 110, y = 750      *)
C8_Witness ==
    /\ fPhase = "drawn"
    /\ fCmds = <<Command("M", <<-5, 7>>), Command("L", <<10, 10>>), Command("L", <<0, 0>>)>>
    /\ fData.left = 100 /\ fData.scaleY = 3
    /\ fOut.pathSegments[1][3] = Point(FNum(110000), FNum(750000))
    /\ Len(fLines) = 2

(* de Casteljau: the point between a and b at k tenths, times 10 *)
Lerp10(a, b, k) == (10 - k) * a + k * b

(* the quadratic Bezier point of p0, p1, p2 at k tenths *)
QuadPoint(k, p0, p1, p2) ==
    LET X(p) == p.x.v
        Y(p) == p.y.v
    IN  Point(FNum(Lerp10(Lerp10(X(p0), X(p1), k), Lerp10(X(p1), X(p2), k), k) \div 100),
              FNum(Lerp10(Lerp10(Y(p0), Y(p1), k), Lerp10(Y(p1), Y(p2), k), k) \div 100))

(* the cubic Bezier point of p0 .. p3 at k tenths *)
CubicPoint(k, p0, p1, p2, p3) ==
    LET X(p) == p.x.v
        Y(p) == p.y.v
        Q(a, b, c) == Lerp10(Lerp10(a, b, k), Lerp10(b, c, k), k)
    IN  Point(FNum(Lerp10(Q(X(p0), X(p1), X(p2)), Q(X(p1), X(p2), X(p3)), k) \div 1000),
              FNum(Lerp10(Q(Y(p0), Y(p1), Y(p2)), Q(Y(p1), Y(p2), Y(p3)), k) \div 1000))

(* the polylines of a command list: st = [done, open, cur] are the closed   *)
(* polylines, the open one and the current point                            *)
RECURSIVE Polylines(_, _, _, _, _)
Polylines(rest, st, cmds, data, pageHeight) ==
    IF rest = <<>> THEN st
    ELSE LET c == Head(rest)
             P(j) == MappedPoint(c.args[j], c.args[j + 1], cmds, data, pageHeight)
             next ==
                 CASE c.cmd = "M" ->
                        [done |-> IF st.open = <<>> THEN st.done ELSE Append(st.done, st.open),
                         open |-> <<P(1)>>, cur |-> P(1)]
                   [] c.cmd = "L" ->
                        [st EXCEPT !.open = Append(st.open, P(1)), !.cur = P(1)]
                   [] c.cmd = "Q" ->
                        [st EXCEPT !.open = st.open \o
                                       [k \in 1..10 |-> QuadPoint(k, st.cur, P(1), P(3))],
                                   !.cur = P(3)]
                   [] c.cmd = "C" ->
                        [st EXCEPT !.open = st.open \o
                                       [k \in 1..11 |->
                                           CubicPoint(k - 1, st.cur, P(1), P(3), P(5))],
                                   !.cur = P(5)]
                   [] c.cmd = "Z" ->
                        IF st.open = <<>> THEN st
                        ELSE [st EXCEPT !.open = Append(st.open, st.open[1])]
                   [] OTHER -> st
         IN  Polylines(Tail(rest), next, cmds, data, pageHeight)

ExpectedPolylines(cmds, data, pageHeight) ==
    LET st == Polylines(cmds, [done |-> <<>>, open |-> <<>>,
                               cur |-> Point(FNum(0), FNum(0))], cmds, data, pageHeight)
    IN  [pathSegments |-> IF st.open = <<>> THEN st.done ELSE Append(st.done, st.open),
         current |-> st.cur]

(* C9: every Q appends exactly 10 points (t = 0.1 .. 1.0) and every C       *)
(* exactly 11 points (t = 0 .. 1.0) to the current polyline, each the       *)
(* Bezier point of the current point and the mapped control and end         *)
(* points; afterwards the current point is the mapped end point.            *)
C9_CurveSampling ==
    fPhase = "drawn" => fOut = ExpectedPolylines(fCmds, fData, fPageHeight)

(* M(0,0) Q(5,10 -> 10,0) under the identity transform: one polyline of 11  *)
(* points that ends in (10, 0) and passes (5, -5) at t = 0.5                *)
C9_Witness ==
    /\ fPhase = "drawn"
    /\ fCmds = <<Command("M", <<0, 0>>), Command("Q", <<5, 10, 10, 0>>)>>
    /\ fData.left = 0 /\ fData.scaleX = 1 /\ fPageHeight = 0
    /\ Len(fOut.pathSegments) = 1
    /\ Len(fOut.pathSegments[1]) = 11
    /\ fOut.pathSegments[1][6] = Point(FNum(5000), FNum(-5000))
    /\ fOut.pathSegments[1][11] = Point(FNum(10000), FNum(0))
    /\ fOut.current = Point(FNum(10000), FNum(0))

(* the number of M commands among the first i commands *)
MoveCount(cmds, i) == Cardinality({j \in 1..i : cmds[j].cmd = "M"})

(* an L, Q or C comes before the first M: it finds currentSegment empty and *)
(* its points make a polyline no M has started                              *)
LeadingPolyline(cmds) ==
    IF \E i \in 1..Len(cmds) : cmds[i].cmd \in {"L", "Q", "C"} /\ MoveCount(cmds, i) = 0
    THEN 1 ELSE 0

(* the number of points the open polyline has after command i *)
RECURSIVE PointsUpTo(_, _)
PointsUpTo(cmds, i) ==
    IF i = 0 THEN 0
    ELSE LET before == PointsUpTo(cmds, i - 1)
         IN  CASE cmds[i].cmd = "M" -> 1
               [] cmds[i].cmd = "L" -> before + 1
               [] cmds[i].cmd = "Q" -> before + 10
               [] cmds[i].cmd = "C" -> before + 11
               [] OTHER -> IF before > 0 THEN before + 1 ELSE 0

(* the number of strokes of the polylines before polyline g *)
RECURSIVE StrokesBefore(_, _)
StrokesBefore(segs, g) ==
    IF g <= 1 THEN 0
    ELSE StrokesBefore(segs, g - 1)
         + (IF Len(segs[g - 1]) >= 2 THEN Len(segs[g - 1]) - 1 ELSE 0)

(* the polylines segs and the strokes lines are those of the command list:  *)
(* one polyline per M (and the leading one), each M point first in its      *)
(* polyline, each L point and each Z copy of the first point at its place,  *)
(* and one stroke per pair of neighbours of every polyline of 2 or more     *)
(* points                                                                   *)
Segmented(cmds, segs, lines, data, pageHeight) ==
    /\ Len(segs) = MoveCount(cmds, Len(cmds)) + LeadingPolyline(cmds)
    /\ \A i \in 1..Len(cmds) :
          LET g == MoveCount(cmds, i) + LeadingPolyline(cmds)
              o == PointsUpTo(cmds, i)
          IN  o > 0 =>
                 /\ g \in 1..Len(segs) /\ o <= Len(segs[g])
                 /\ cmds[i].cmd = "M" =>
                        /\ o = 1
                        /\ segs[g][1] = MappedPoint(cmds[i].args[1], cmds[i].args[2],
                                                    cmds, data, pageHeight)
                 /\ cmds[i].cmd = "L" =>
                        segs[g][o] = MappedPoint(cmds[i].args[1], cmds[i].args[2],
                                                 cmds, data, pageHeight)
                 /\ cmds[i].cmd = "Z" => segs[g][o] = segs[g][1]
                 /\ (i = Len(cmds) \/ cmds[i + 1].cmd = "M") => Len(segs[g]) = o
    /\ Len(lines) = StrokesBefore(segs, Len(segs) + 1)
    /\ \A g \in 1..Len(segs) : \A j \in 1..(Len(segs[g]) - 1) :
          lines[StrokesBefore(segs, g) + j] = [start |-> segs[g][j], end |-> segs[g][j + 1]]

(* the polylines that are drawn *)
DrawnCount(segs) == Cardinality({g \in 1..Len(segs) : Len(segs[g]) >= 2})

(* C23 as stated: M closes the open polyline and starts one at its mapped   *)
(* point, L, Q and C append, Z appends a copy of the first point, polylines *)
(* of 2 or more points are stroked between neighbours, and a path with k M  *)
(* commands yields at most k drawn polylines.                               *)
C23_PolylinesPerMove ==
    fPhase = "drawn" =>
        /\ Segmented(fCmds, fOut.pathSegments, fLines, fData, fPageHeight)
        /\ DrawnCount(fOut.pathSegments) <= MoveCount(fCmds, Len(fCmds))

(* C23 amended: the same segmentation, with at most k drawn polylines for a *)
(* path that begins with M, and at most k + 1 when an L, Q or C comes       *)
(* before the first M: these append to the still empty currentSegment,      *)
(* which is drawn as a polyline of its own.                                 *)
C23_PolylineSegmentation ==
    fPhase = "drawn" =>
        /\ Segmented(fCmds, fOut.pathSegments, fLines, fData, fPageHeight)
        /\ DrawnCount(fOut.pathSegments)
              <= MoveCount(fCmds, Len(fCmds)) + LeadingPolyline(fCmds)
        /\ fCmds[1].cmd = "M" =>
              DrawnCount(fOut.pathSegments) <= MoveCount(fCmds, Len(fCmds))

(* M(0,0) L(10,10) Z: one polyline of three points that ends where it       *)
(* began, drawn with two strokes                                            *)
C23_Witness ==
    /\ fPhase = "drawn"
    /\ fCmds = <<Command("M", <<0, 0>>), Command("L", <<10, 10>>), Command("Z", <<>>)>>
    /\ Len(fOut.pathSegments) = 1
    /\ Len(fOut.pathSegments[1]) = 3
    /\ fOut.pathSegments[1][3] = fOut.pathSegments[1][1]
    /\ Len(fLines) = 2

UnsupportedLetters == {"H", "V", "S", "T", "A"}

IsUnsupportedTok(tok) == tok.k = "str" /\ Len(tok.c) = 1 /\ tok.c[1] \in UnsupportedLetters

IsSupportedTok(tok) == ~IsUnsupportedTok(tok)

(* the string without its H, V, S, T and A commands: each such letter goes, *)
(* with everything up to the next command letter                            *)
RECURSIVE StripUnsupported(_, _)
StripUnsupported(str, skipping) ==
    IF str = <<>> THEN <<>>
    ELSE IF IsCommandLetter(Head(str))
    THEN IF toUpperCaseChar(Head(str)) \in UnsupportedLetters
         THEN StripUnsupported(Tail(str), TRUE)
         ELSE <<Head(str)>> \o StripUnsupported(Tail(str), FALSE)
    ELSE IF skipping THEN StripUnsupported(Tail(str), TRUE)
    ELSE <<Head(str)>> \o StripUnsupported(Tail(str), FALSE)

(* the H, V, S, T and A commands written in the string *)
UnsupportedIn(str) ==
    Cardinality({i \in 1..Len(str) : toUpperCaseChar(str[i]) \in UnsupportedLetters})

(* what renderSVGPath strokes for the path string str *)
StrokesOf(segments) ==
    FlattenSeqs([g \in 1..Len(segments) |-> drawPathSegment(segments[g])])

(* C24: for an SVG path string with H, V, S, T or A commands the parser     *)
(* raises no error and emits each of them as its upper-case letter followed *)
(* by no operand, next to the letters and operands of the M, L, Q, C and Z  *)
(* commands; the flattener skips them, so polylines, current point and      *)
(* strokes are those of the same string with these commands removed.        *)
C24_UnsupportedDropped ==
    (fPhase # "off" /\ fData.path.t = "string") =>
        /\ ~parseSVGPath(fData.path).thrown
        /\ fPhase \in {"parsed", "drawn"} =>
              /\ SelectSeq(fStream, IsSupportedTok) = Canonical(fCmds)
              /\ Len(SelectSeq(fStream, IsUnsupportedTok)) = UnsupportedIn(fData.path.str)
              /\ \A i \in 1..Len(fStream) :
                    IsUnsupportedTok(fStream[i])
                    => (i = Len(fStream) \/ fStream[i + 1].k = "str")
        /\ fPhase = "drawn" =>
              /\ fOut = drawSVGPathCommands(
                            parseSVGPath(JsString(StripUnsupported(fData.path.str, FALSE))).commands,
                            fData, fPageHeight)
              /\ fLines = StrokesOf(DrawnSegments(fOut.pathSegments))
              /\ fLines = StrokesOf(DrawnSegments(
                              ExpectedPolylines(fCmds, fData, fPageHeight).pathSegments))

(* "M 0 0 H 10 L 10 10": the stream is M 0 0 H L 10 10 and one stroke is    *)
(* drawn                                                                    *)
C24_Witness ==
    /\ fPhase = "drawn"
    /\ fData.path.t = "string"
    /\ fCmds = <<Command("M", <<0, 0>>), Command("L", <<10, 10>>)>>
    /\ Len(fStream) = 7
    /\ fStream[4] = StrTok(<<"H">>)
    /\ fStream[5] = StrTok(<<"L">>)
    /\ Len(fLines) = 1

----------------------------------------------------------------------------
(* The text renderer as a state machine: addTextToPage is handed one text   *)
(* entry of a page's annotation set.                                        *)

BaseFontSizes == {Num(1), Num(5), Num(20), Num(40), Num(100)}
TextScales == {Rat(1, 4), Rat(1, 2), Num(1), Num(2), Num(4)}
Texts == {<<"H", "i">>, <<" ", "a", " ">>, <<>>, <<" ", " ">>}
PageHeights == {Num(792)}

(* a text entry as saveCurrentPageObjects writes it at a scale # 1: the     *)
(* base font size in fontSize, the resize factors in manualScaleX / Y       *)
ZoomedTextEntry(base, mx, my, left, top) ==
    [type |-> TextType, left |-> left, top |-> top, scaleX |-> Num(1), scaleY |-> Num(1),
     strokeWidth |-> Undef, fontSize |-> base, baseFontSize |-> base,
     manualScaleX |-> mx, manualScaleY |-> my]

(* a text entry as it is written at scale 1.0: toObject()'s own fields, the *)
(* resize factors in scaleX / scaleY                                        *)
PlainTextEntry(base, mx, my, left, top) ==
    [type |-> TextType, left |-> left, top |-> top, scaleX |-> mx, scaleY |-> my,
     strokeWidth |-> Undef, fontSize |-> base, baseFontSize |-> Undef,
     manualScaleX |-> Undef, manualScaleY |-> Undef]

TextEntries ==
    { ZoomedTextEntry(b, mx, my, l, tp) :
         b \in BaseFontSizes, mx \in TextScales, my \in TextScales, l \in Lefts, tp \in Tops }
    \cup
    { PlainTextEntry(b, mx, my, l, tp) :
         b \in BaseFontSizes, mx \in TextScales, my \in TextScales, l \in Lefts, tp \in Tops }

TextInit ==
    /\ WebIdle
    /\ SaveIdle
    /\ PathIdle
    /\ ColorIdle
    /\ ImageIdle
    /\ NormIdle
    /\ ParseIdle
    /\ FlatIdle
    /\ EditorIdle
    /\ tPhase = "start"
    /\ tData \in TextEntries
    /\ tText \in Texts
    /\ tPageHeight \in PageHeights
    /\ tCall = NoCall

(* addAnnotationsToPage: await this.addTextToPage(page, objData, ...) *)
TAddText ==
    /\ tPhase = "start"
    /\ tCall' = addTextToPage(tData, tText, tPageHeight)
    /\ tPhase' = "done"
    /\ UNCHANGED <<tData, tText, tPageHeight>>
    /\ TextFrame

TextNext == TAddText

SpecText == TextInit /\ [][TextNext]_vars

(* the annotation's base font size and resize factors, whichever of the two *)
(* shapes the entry has                                                     *)
BaseFontSizeOf(e) == e.fontSize
ManualScaleXOf(e) == IF e.manualScaleX # Undef THEN e.manualScaleX ELSE e.scaleX
ManualScaleYOf(e) == IF e.manualScaleY # Undef THEN e.manualScaleY ELSE e.scaleY

NonBlankText(text) == \E i \in 1..Len(text) : ~IsSpace(text[i])

(* C10: for a text annotation with non-blank text the size passed to        *)
(* drawText is min(72, max(6, baseFontSize * (manualScaleX + manualScaleY)  *)
(* / 2)), so it is at least 6 and at most 72.                               *)
C10_TextSizeClamp ==
    (tPhase = "done" /\ NonBlankText(tText)) =>
        /\ tCall.drawn
        /\ tCall.size = RMin(Num(72), RMax(Num(6),
               RDiv(RMul(BaseFontSizeOf(tData),
                         RAdd(ManualScaleXOf(tData), ManualScaleYOf(tData))), Num(2))))
        /\ RLe(Num(6), tCall.size)
        /\ RLe(tCall.size, Num(72))

(* base 100 with scales 1 is drawn at exactly 72 *)
C10_Witness ==
    /\ tPhase = "done"
    /\ tData.fontSize = Num(100)
    /\ tData.manualScaleX = Num(1) /\ tData.manualScaleY = Num(1)
    /\ tText = <<"H", "i">>
    /\ tCall.drawn
    /\ tCall.size = Num(72)

----------------------------------------------------------------------------
(* The editor as a state machine: the handlers of PdfEditor, the steps of   *)
(* the asynchronous renderPage / restorePageObjects pipeline, and the       *)
(* timers.                                                                  *)

MaxPages == 2
MaxObjects == 2
MaxZoomSteps == 1
MaxTimers == 1
MaxEvents == 3

Pages == 1..MaxPages

(* a desktop window that fits the page at 1.0, a phone that would fit it at 0.5 *)
Windows == {DesktopWindow(Num(1)), MobileWindow(Rat(1, 2))}

(* renderPage: this.baseScale for the window *)
baseScaleOf(w) ==
    IF w.mobile THEN RMax(Rat(4, 5), RMin(w.fit, Rat(6, 5)))
    ELSE RMin(w.fit, Rat(3, 2))

RECURSIVE Power(_, _)
Power(r, k) == IF k = 0 THEN Num(1) ELSE RMul(r, Power(r, k - 1))

(* the zoom levels within MaxZoomSteps clicks of 1.0 *)
ZoomLevels == { Power(Rat(5, 4), k) : k \in 0..MaxZoomSteps }
              \cup { Power(Rat(4, 5), k) : k \in 0..MaxZoomSteps }

(* zoomIn, zoomOut, zoomFit: the argument of setZoom *)
ZoomRequests == {RMul(eZoom, Rat(5, 4)), RMul(eZoom, Rat(4, 5)), Num(1)}

WithId(o, id) == [f \in (DOMAIN o) \cup {"id"} |-> IF f = "id" THEN id ELSE o[f]]

NoPages == [p \in Pages |-> <<>>]

(* saveCurrentPageObjects on the page set pages *)
saveCurrentPageObjects(pages, canvas) ==
    IF eHasCanvas
    THEN [pages EXCEPT ![ePage] =
             [i \in 1..Len(canvas) |-> storeObjData(toObject(canvas[i], eKeep), eScale)]]
    ELSE pages

(* saveCurrentPageObjectsWithScale(useScale) *)
saveCurrentPageObjectsWithScale(pages, canvas, useScale) ==
    IF eHasCanvas
    THEN [pages EXCEPT ![ePage] =
             [i \in 1..Len(canvas) |->
                 storeObjDataWithScale(toObject(canvas[i], eKeep), useScale)]]
    ELSE pages

(* renderPage(pageNumber) up to its first await, called with the page set   *)
(* pages and skipPageSave = skip                                            *)
renderPage(pageNumber, pages, skip) ==
    IF eSwitching
    THEN [started |-> FALSE, pages |-> pages, skip |-> skip, page |-> ePage]
    ELSE [started |-> TRUE,
          pages |-> IF eHasCanvas /\ ePage # pageNumber /\ ~skip
                    THEN saveCurrentPageObjects(pages, eCanvas) ELSE pages,
          skip |-> FALSE,
          page |-> pageNumber]

(* the effect of a call of renderPage(pageNumber) on the editor; one        *)
(* renderPage is followed at a time: no second one starts between the       *)
(* awaits of a running one                                                  *)
CallRenderPage(pageNumber, pages, skip) ==
    LET r == renderPage(pageNumber, pages, skip)
    IN  /\ (r.started => ePc \in {"idle", "restoring"})
        /\ ePageObjects' = r.pages
        /\ eSkipSave' = r.skip
        /\ ePage' = r.page
        /\ eSwitching' = (eSwitching \/ r.started)
        /\ ePc' = IF r.started THEN "getPage" ELSE ePc
        /\ eTarget' = IF r.started THEN pageNumber ELSE eTarget

(* a user or window event within the bound *)
Event ==
    /\ ePc # "off"
    /\ eEvents < MaxEvents
    /\ eEvents' = eEvents + 1

(* the editor is at rest: no renderPage is running and no callback of       *)
(* restorePageObjects is outstanding                                        *)
AtRest == ~eSwitching /\ ~eRestoring /\ ePc = "idle" /\ ePending = <<>>

(* the page a new object is recorded for: the page shown while at rest and  *)
(* no confirmation dialog is open                                           *)
PlacedOn == IF AtRest /\ eSubmit = "idle" THEN ePage ELSE 0

(* the object:added / object:modified / object:removed handlers return early *)
AutoSaveOff == eRestoring \/ eSwitching

EditorInit ==
    /\ WebIdle
    /\ SaveIdle
    /\ PathIdle
    /\ ColorIdle
    /\ ImageIdle
    /\ NormIdle
    /\ ParseIdle
    /\ FlatIdle
    /\ TextIdle
    /\ eKeep \in BOOLEAN
    /\ eWindow \in Windows
    /\ eBase = Num(1)
    /\ eZoom = Num(1)
    /\ eScale = Num(1)
    /\ eShown = Num(1)
    /\ ePage = 1
    /\ ePageObjects = NoPages
    /\ eCanvas = <<>>
    /\ eHasCanvas = FALSE
    /\ eListening = FALSE
    /\ eSwitching = TRUE
    /\ eRestoring = FALSE
    /\ eSkipSave = FALSE
    /\ ePc = "getPage"
    /\ eTarget = 1
    /\ ePending = <<>>
    /\ eFinished = 0
    /\ ePlaced = [id \in 1..MaxObjects |-> 0]
    /\ eTimers = 0
    /\ eResize = FALSE
    /\ eSignature = FALSE
    /\ eSubmit = "idle"
    /\ eSent = NoPages
    /\ eEvents = 0
    /\ eIds = 0

(* setZoom(newZoomLevel), from zoomIn, zoomOut or zoomFit *)
SetZoom ==
    \E request \in ZoomRequests :
        LET newZoomLevel == RMax(Rat(1, 4), RMin(Num(4), request))
        IN  /\ Event
            /\ newZoomLevel # eZoom
            /\ newZoomLevel \in ZoomLevels
            /\ eZoom' = newZoomLevel
            /\ CallRenderPage(ePage,
                              saveCurrentPageObjectsWithScale(ePageObjects, eCanvas, eScale),
                              TRUE)
            /\ UNCHANGED <<eKeep, eFinished, ePlaced, eWindow, eBase, eScale, eShown, eCanvas, eHasCanvas,
                           eListening, eRestoring, ePending, eTimers, eResize, eSignature,
                           eSubmit, eSent, eIds>>
            /\ EditorFrame

(* the window is resized: the resize listener restarts the debounce timer *)
WindowResize ==
    \E w \in Windows \ {eWindow} :
        /\ Event
        /\ eWindow' = w
        /\ eResize' = (eResize \/ eListening)
        /\ UNCHANGED <<eKeep, eFinished, ePlaced, eBase, eZoom, eScale, eShown, ePage, ePageObjects, eCanvas,
                       eHasCanvas, eListening, eSwitching, eRestoring, eSkipSave, ePc,
                       eTarget, ePending, eTimers, eSignature, eSubmit, eSent, eIds>>
        /\ EditorFrame

(* the debounce timer of the resize listener fires, 300 ms after the last resize *)
ResizeTimeout ==
    /\ eResize
    /\ eResize' = FALSE
    /\ IF ~eSwitching
       THEN CallRenderPage(ePage,
                           saveCurrentPageObjectsWithScale(ePageObjects, eCanvas, eScale),
                           TRUE)
       ELSE UNCHANGED <<ePageObjects, eSkipSave, ePage, eSwitching, ePc, eTarget>>
    /\ UNCHANGED <<eKeep, eFinished, ePlaced, eWindow, eBase, eZoom, eScale, eShown, eCanvas, eHasCanvas,
                   eListening, eRestoring, ePending, eTimers, eSignature, eSubmit, eSent,
                   eEvents, eIds>>
    /\ EditorFrame

(* goToPage(pageNumber), from nextPage or prevPage *)
GoToPage ==
    \E pageNumber \in {ePage + 1, ePage - 1} :
        /\ Event
        /\ eListening
        /\ pageNumber \in Pages
        /\ CallRenderPage(pageNumber, ePageObjects, eSkipSave)
        /\ UNCHANGED <<eKeep, eFinished, ePlaced, eWindow, eBase, eZoom, eScale, eShown, eCanvas, eHasCanvas,
                       eListening, eRestoring, ePending, eTimers, eResize, eSignature,
                       eSubmit, eSent, eIds>>
        /\ EditorFrame

(* renderPage after await this.pdfDoc.getPage: baseScale and scale are set *)
RenderGotPage ==
    /\ ePc = "getPage"
    /\ eBase' = baseScaleOf(eWindow)
    /\ eScale' = RMul(baseScaleOf(eWindow), eZoom)
    /\ ePc' = "render"
    /\ UNCHANGED <<eKeep, eFinished, ePlaced, eWindow, eZoom, eShown, ePage, ePageObjects, eCanvas, eHasCanvas,
                   eListening, eSwitching, eRestoring, eSkipSave, eTarget, ePending,
                   eTimers, eResize, eSignature, eSubmit, eSent, eEvents, eIds>>
    /\ EditorFrame

(* renderPage after await page.render(...).promise: the canvas is cleared   *)
(* and resized; the object:removed handlers return early (isPageSwitching)  *)
RenderDrawn ==
    /\ ePc = "render"
    /\ eCanvas' = <<>>
    /\ eHasCanvas' = TRUE
    /\ eShown' = eScale
    /\ ePc' = "image"
    /\ UNCHANGED <<eKeep, eFinished, ePlaced, eWindow, eBase, eZoom, eScale, ePage, ePageObjects, eListening,
                   eSwitching, eRestoring, eSkipSave, eTarget, ePending, eTimers, eResize,
                   eSignature, eSubmit, eSent, eEvents, eIds>>
    /\ EditorFrame

(* a rejected await of renderPage: the catch block reports it and           *)
(* isPageSwitching stays set                                                *)
RenderFails ==
    /\ ePc \in {"getPage", "render"}
    /\ ePc' = "idle"
    /\ UNCHANGED <<eKeep, eFinished, ePlaced, eWindow, eBase, eZoom, eScale, eShown, ePage, ePageObjects,
                   eCanvas, eHasCanvas, eListening, eSwitching, eRestoring, eSkipSave,
                   eTarget, ePending, eTimers, eResize, eSignature, eSubmit, eSent,
                   eEvents, eIds>>
    /\ EditorFrame

(* the objects of a page whose callback restorePageObjects gets later: a   *)
(* text is added by setTimeout(..., 0) and an image after its source has    *)
(* loaded; fabric.Path.fromObject calls back at once or later               *)
AsyncChoices(pageObjects) ==
    { later \in SUBSET (1..Len(pageObjects)) :
        \A i \in 1..Len(pageObjects) :
            pageObjects[i].type \in {TextType, ImageType} => i \in later }

(* restorePageObjects before its forEach: pendingObjects = 0, no run of     *)
(* finishRestoration yet                                                    *)
RestoreStart(canvas, pending, timers) ==
    [canvas |-> canvas, pending |-> pending, pendingObjects |-> 0, runs |-> 0,
     timers |-> timers]

(* addObjectAndCheck(obj) inside the forEach, after pendingObjects++: the   *)
(* object:added handler starts an auto-save timer once finishRestoration    *)
(* has cleared the flags                                                    *)
addObjectAndCheck(acc, obj) ==
    [acc EXCEPT !.canvas = Append(@, obj),
                !.timers = IF acc.runs = 0 THEN @ ELSE @ + 1,
                !.runs = IF acc.pendingObjects = 0 THEN @ + 1 ELSE @]

(* the forEach of restorePageObjects from object i on; the callbacks of the *)
(* objects in later are still to come when it ends                          *)
RECURSIVE restoreEach(_, _, _, _)
restoreEach(objs, later, i, acc) ==
    IF i > Len(objs) THEN acc
    ELSE IF i \in later
         THEN restoreEach(objs, later, i + 1,
                          [acc EXCEPT !.pending = Append(@, [obj |-> objs[i], age |-> 0]),
                                      !.pendingObjects = @ + 1])
         ELSE restoreEach(objs, later, i + 1, addObjectAndCheck(acc, objs[i]))

(* the end of restorePageObjects: if (pendingObjects === 0) finishRestoration() *)
restoreEnd(acc) == [acc EXCEPT !.runs = IF acc.pendingObjects = 0 THEN @ + 1 ELSE @]

(* restorePageObjects(pageObjects, pageNumber) up to its return *)
restorePageObjects(objs, later, canvas, pending, timers) ==
    restoreEnd(restoreEach(objs, later, 1, RestoreStart(canvas, pending, timers)))

(* the callbacks of earlier restorePageObjects calls, one call older *)
Older(pending) == [i \in 1..Len(pending) |-> [pending[i] EXCEPT !.age = @ + 1]]

(* the state after restorePageObjects has returned with result done *)
Restored(done) ==
    /\ done.timers <= MaxTimers
    /\ eCanvas' = done.canvas
    /\ ePending' = done.pending
    /\ eTimers' = done.timers
    /\ eFinished' = done.runs
    /\ eRestoring' = (done.runs = 0)
    /\ eSwitching' = (eSwitching /\ done.runs = 0)
    /\ ePc' = IF done.runs = 0 THEN "restoring" ELSE "idle"

(* img.onload and the setBackgroundImage callback: loadPageObjects, then    *)
(* restorePageObjects up to its return, or the end of the page switch       *)
BackgroundLoaded ==
    /\ ePc = "image"
    /\ LET pageObjects == ePageObjects[eTarget]
       IN  IF Len(pageObjects) > 0
           THEN \E later \in AsyncChoices(pageObjects) :
                    Restored(restorePageObjects(
                        [i \in 1..Len(pageObjects) |->
                            scaleObjectForCurrentZoom(pageObjects[i], eScale)],
                        later, eCanvas, Older(ePending), eTimers))
           ELSE /\ eSwitching' = FALSE
                /\ ePc' = "idle"
                /\ UNCHANGED <<eRestoring, ePending, eCanvas, eTimers, eFinished>>
    /\ eListening' = TRUE
    /\ UNCHANGED <<eKeep, ePlaced, eWindow, eBase, eZoom, eScale, eShown, ePage,
                   ePageObjects, eHasCanvas, eSkipSave, eTarget, eResize, eSignature,
                   eSubmit, eSent, eEvents, eIds>>
    /\ EditorFrame

(* the background image never fires onload: img has no onerror handler and  *)
(* nothing else ends the page switch                                        *)
BackgroundNeverLoads ==
    /\ ePc = "image"
    /\ ePc' = "idle"
    /\ UNCHANGED <<eKeep, eFinished, ePlaced, eWindow, eBase, eZoom, eScale, eShown, ePage,
                   ePageObjects, eCanvas, eHasCanvas, eListening, eSwitching, eRestoring,
                   eSkipSave, eTarget, ePending, eTimers, eResize, eSignature, eSubmit,
                   eSent, eEvents, eIds>>
    /\ EditorFrame

(* addObjectAndCheck(obj), from the setTimeout or fromObject callback of    *)
(* one restored object; the last one of its restorePageObjects call runs    *)
(* finishRestoration                                                        *)
AddObjectAndCheck ==
    \E i \in 1..Len(ePending) :
        LET rest == [j \in 1..(Len(ePending) - 1) |->
                        IF j < i THEN ePending[j] ELSE ePending[j + 1]]
            last == \A j \in 1..Len(rest) : rest[j].age # ePending[i].age
        IN  /\ eCanvas' = Append(eCanvas, ePending[i].obj)
            /\ ePending' = rest
            /\ eTimers' = IF AutoSaveOff THEN eTimers ELSE eTimers + 1
            /\ (~AutoSaveOff => eTimers < MaxTimers)
            /\ IF last
               THEN /\ eSwitching' = FALSE
                    /\ eRestoring' = FALSE
                    /\ ePc' = IF ePc = "restoring" THEN "idle" ELSE ePc
                    /\ eFinished' = IF ePending[i].age = 0 THEN eFinished + 1
                                    ELSE eFinished
               ELSE UNCHANGED <<eSwitching, eRestoring, ePc, eFinished>>
            /\ UNCHANGED <<eKeep, ePlaced, eWindow, eBase, eZoom, eScale, eShown, ePage,
                           ePageObjects, eHasCanvas, eListening, eSkipSave, eTarget,
                           eResize, eSignature, eSubmit, eSent, eEvents, eIds>>
            /\ EditorFrame

(* the user puts a text on the canvas (addTextOnClick) or draws a path;     *)
(* object:added starts the 10 ms auto-save timer                            *)
AddObject ==
    \E kind \in {TextType, PathType} :
        LET obj == IF kind = TextType
                   THEN NewText(Num(100), Num(60), Num(1), Num(1), eScale)
                   ELSE NewPath(Num(100), Num(60), Num(1), Num(1), eScale)
        IN  /\ Event
            /\ eListening
            /\ eIds < MaxObjects
            /\ eIds' = eIds + 1
            /\ eCanvas' = Append(eCanvas, WithId(obj, eIds + 1))
            /\ ePlaced' = [ePlaced EXCEPT ![eIds + 1] = PlacedOn]
            /\ eTimers' = IF AutoSaveOff THEN eTimers ELSE eTimers + 1
            /\ (~AutoSaveOff => eTimers < MaxTimers)
            /\ UNCHANGED <<eKeep, eFinished, eWindow, eBase, eZoom, eScale, eShown, ePage,
                           ePageObjects, eHasCanvas, eListening, eSwitching, eRestoring,
                           eSkipSave, ePc, eTarget, ePending, eResize, eSignature, eSubmit,
                           eSent>>
            /\ EditorFrame

(* setTimeout(() => this.saveCurrentPageObjects(), 10) fires *)
AutoSaveTimeout ==
    /\ eTimers > 0
    /\ eTimers' = eTimers - 1
    /\ ePageObjects' = saveCurrentPageObjects(ePageObjects, eCanvas)
    /\ UNCHANGED <<eKeep, eFinished, ePlaced, eWindow, eBase, eZoom, eScale, eShown, ePage, eCanvas, eHasCanvas,
                   eListening, eSwitching, eRestoring, eSkipSave, ePc, eTarget, ePending,
                   eResize, eSignature, eSubmit, eSent, eEvents, eIds>>
    /\ EditorFrame

(* the user drags an object: object:modified saves at once *)
ModifyObject ==
    \E i \in 1..Len(eCanvas) :
        LET canvas == [eCanvas EXCEPT ![i].left = Num(200)]
        IN  /\ Event
            /\ eListening
            /\ eCanvas' = canvas
            /\ ePageObjects' = IF AutoSaveOff THEN ePageObjects
                               ELSE saveCurrentPageObjects(ePageObjects, canvas)
            /\ UNCHANGED <<eKeep, eFinished, ePlaced, eWindow, eBase, eZoom, eScale, eShown, ePage, eHasCanvas,
                           eListening, eSwitching, eRestoring, eSkipSave, ePc, eTarget,
                           ePending, eTimers, eResize, eSignature, eSubmit, eSent, eIds>>
            /\ EditorFrame

(* deleteSelectedObject: object:removed saves at once *)
RemoveObject ==
    \E i \in 1..Len(eCanvas) :
        LET canvas == [j \in 1..(Len(eCanvas) - 1) |->
                          IF j < i THEN eCanvas[j] ELSE eCanvas[j + 1]]
        IN  /\ Event
            /\ eListening
            /\ eCanvas' = canvas
            /\ ePlaced' = [ePlaced EXCEPT ![eCanvas[i].id] = 0]
            /\ ePageObjects' = IF AutoSaveOff THEN ePageObjects
                               ELSE saveCurrentPageObjects(ePageObjects, canvas)
            /\ UNCHANGED <<eKeep, eFinished, eWindow, eBase, eZoom, eScale, eShown, ePage,
                           eHasCanvas, eListening, eSwitching, eRestoring, eSkipSave, ePc,
                           eTarget, ePending, eTimers, eResize, eSignature, eSubmit, eSent,
                           eIds>>
            /\ EditorFrame

(* the user adds a signature: fabric.Image.fromURL starts loading it *)
AddSignature ==
    /\ Event
    /\ eListening
    /\ ~eSignature
    /\ eIds < MaxObjects
    /\ eSignature' = TRUE
    /\ UNCHANGED <<eKeep, eFinished, ePlaced, eWindow, eBase, eZoom, eScale, eShown, ePage, ePageObjects,
                   eCanvas, eHasCanvas, eListening, eSwitching, eRestoring, eSkipSave, ePc,
                   eTarget, ePending, eTimers, eResize, eSubmit, eSent, eIds>>
    /\ EditorFrame

(* the fromURL callback: the image is added (object:added) and              *)
(* saveCurrentPageObjects is called                                         *)
SignatureLoaded ==
    LET img == WithId(NewImage(Num(100), Num(100), Rat(1, 2), Rat(1, 2)), eIds + 1)
        canvas == Append(eCanvas, img)
    IN  /\ eSignature
        /\ eSignature' = FALSE
        /\ eIds' = eIds + 1
        /\ eCanvas' = canvas
        /\ ePlaced' = [ePlaced EXCEPT ![eIds + 1] = PlacedOn]
        /\ eTimers' = IF AutoSaveOff THEN eTimers ELSE eTimers + 1
        /\ (~AutoSaveOff => eTimers < MaxTimers)
        /\ ePageObjects' = saveCurrentPageObjects(ePageObjects, canvas)
        /\ UNCHANGED <<eKeep, eFinished, eWindow, eBase, eZoom, eScale, eShown, ePage, eHasCanvas,
                       eListening, eSwitching, eRestoring, eSkipSave, ePc, eTarget,
                       ePending, eResize, eSubmit, eSent, eEvents>>
        /\ EditorFrame

(* hasAnyAnnotations on the page set pages *)
hasAnyAnnotations(pages) == \E p \in Pages : Len(pages[p]) > 0

(* saveChanges up to the confirmation dialog *)
SaveChanges ==
    LET pages == saveCurrentPageObjects(ePageObjects, eCanvas)
    IN  /\ Event
        /\ eListening
        /\ eSubmit = "idle"
        /\ ePageObjects' = pages
        /\ eSubmit' = IF hasAnyAnnotations(pages) THEN "confirm" ELSE "idle"
        /\ UNCHANGED <<eKeep, eFinished, ePlaced, eWindow, eBase, eZoom, eScale, eShown, ePage, eCanvas,
                       eHasCanvas, eListening, eSwitching, eRestoring, eSkipSave, ePc,
                       eTarget, ePending, eTimers, eResize, eSignature, eSent, eIds>>
        /\ EditorFrame

(* the confirmation dialog is answered: on yes this.pageObjects is posted *)
SubmitAnswered ==
    \E confirmed \in BOOLEAN :
        /\ eSubmit = "confirm"
        /\ eSubmit' = "idle"
        /\ eSent' = IF confirmed THEN ePageObjects ELSE eSent
        /\ UNCHANGED <<eKeep, eFinished, ePlaced, eWindow, eBase, eZoom, eScale, eShown, ePage, ePageObjects,
                       eCanvas, eHasCanvas, eListening, eSwitching, eRestoring, eSkipSave,
                       ePc, eTarget, ePending, eTimers, eResize, eSignature, eEvents, eIds>>
        /\ EditorFrame

EditorNext ==
    \/ SetZoom
    \/ WindowResize
    \/ ResizeTimeout
    \/ GoToPage
    \/ RenderGotPage
    \/ RenderDrawn
    \/ RenderFails
    \/ BackgroundLoaded
    \/ BackgroundNeverLoads
    \/ AddObjectAndCheck
    \/ AddObject
    \/ AutoSaveTimeout
    \/ ModifyObject
    \/ RemoveObject
    \/ AddSignature
    \/ SignatureLoaded
    \/ SaveChanges
    \/ SubmitAnswered

SpecEditor == EditorInit /\ [][EditorNext]_vars

(* every await of renderPage settles, the background image loads or fails,  *)
(* and every timer and callback of restorePageObjects that is pending fires *)
EditorFairness ==
    /\ WF_vars(RenderGotPage \/ RenderFails)
    /\ WF_vars(RenderDrawn \/ RenderFails)
    /\ WF_vars(BackgroundLoaded \/ BackgroundNeverLoads)
    /\ WF_vars(AddObjectAndCheck)
    /\ WF_vars(AutoSaveTimeout)
    /\ WF_vars(ResizeTimeout)

SpecEditorFair == SpecEditor /\ EditorFairness

(* the entries a store of the canvas writes when it divides by the scale    *)
(* the canvas is displayed at                                               *)
EntriesAtShownScale(canvas, shown) ==
    [i \in 1..Len(canvas) |-> storeObjData(toObject(canvas[i], eKeep), shown)]

(* C3: whatever the interleaving of zoom, resize, page switch, object       *)
(* events, the delayed auto-save and submit, every write to pageObjects     *)
(* writes the canvas objects' live geometry divided by the scale at which   *)
(* they are displayed.                                                      *)
C3_WritesAtShownScale ==
    [][\A p \in Pages :
          ePageObjects'[p] # ePageObjects[p] =>
              ePageObjects'[p] = EntriesAtShownScale(eCanvas', eShown)]_vars

----------------------------------------------------------------------------
(* The image renderer as a state machine: addImageToPage is handed one      *)
(* image entry of a page's annotation set.                                  *)

(* a page of 600 x 800 points *)
PageSizes == {[width |-> Num(600), height |-> Num(800)]}

(* width 700 is wider, height 900 taller than the page; Undef: no such field *)
ImageWidths == {Undef, Num(100), Num(700)}
ImageHeights == {Undef, Num(50), Num(900)}
ImageScales == {Rat(1, 2), Num(1), Num(2)}
(* left 600 is the page width *)
ImageLefts == {Num(-20), Num(0), Num(300), Num(600)}
ImageTops == {Num(-20), Num(0), Num(400), Num(800)}
ImageSrcs == {ImageSrc(TRUE, TRUE), ImageSrc(TRUE, FALSE), ImageSrc(FALSE, FALSE)}

ImageEntries ==
    { [left |-> l, top |-> tp, width |-> w, height |-> h, scaleX |-> s, scaleY |-> s,
       src |-> src] :
        l \in ImageLefts, tp \in ImageTops, w \in ImageWidths, h \in ImageHeights,
        s \in ImageScales, src \in ImageSrcs }

ImageInit ==
    /\ WebIdle
    /\ SaveIdle
    /\ PathIdle
    /\ ColorIdle
    /\ NormIdle
    /\ ParseIdle
    /\ FlatIdle
    /\ TextIdle
    /\ EditorIdle
    /\ iPhase = "start"
    /\ iData \in ImageEntries
    /\ iPageSize \in PageSizes
    /\ iCall = NoImageCall

(* addAnnotationsToPage: await this.addImageToPage(page, objData, ...) *)
IAddImage ==
    /\ iPhase = "start"
    /\ iCall' = addImageToPage(iData, iPageSize.width, iPageSize.height)
    /\ iPhase' = "done"
    /\ UNCHANGED <<iData, iPageSize>>
    /\ ImageFrame

ImageNext == IAddImage

SpecImage == ImageInit /\ [][ImageNext]_vars

(* the drawn footprint lies inside the page *)
FootprintInside(call, page) ==
    /\ RLe(Num(0), call.x)
    /\ RLe(RAdd(call.x, call.width), page.width)
    /\ RLe(Num(0), call.y)
    /\ RLe(RAdd(call.y, call.height), page.height)

----------------------------------------------------------------------------
(* The Color Codec as a state machine: one color string, parsed once *)

MaxColorLen == 7
ColorChars == {"#", "1", "F", "g", "-"}
ColorStrings == UNION {[1..n -> ColorChars] : n \in 0..MaxColorLen}

ColorInit ==
    /\ WebIdle
    /\ SaveIdle
    /\ PathIdle
    /\ NormIdle /\ ParseIdle /\ FlatIdle /\ TextIdle /\ EditorIdle /\ ImageIdle
    /\ cPhase = "start"
    /\ cColor \in ColorStrings
    /\ cResult = NoColor

CParseColor ==
    /\ cPhase = "start"
    /\ cResult' = parseColor(cColor)
    /\ cPhase' = "done"
    /\ UNCHANGED cColor
    /\ ColorFrame

ColorNext == CParseColor

SpecColor == ColorInit /\ [][ColorNext]_vars

IsRRGGBB(s) == Len(s) = 7 /\ s[1] = "#" /\ \A i \in 2..7 : IsHexDigit(s[i])

InUnitRange(ch) == ~ch.nan /\ RLe(Num(0), ch.v) /\ RLe(ch.v, Num(1))

(* C15: a string of the form #RRGGBB gives (RR/255, GG/255, BB/255), every  *)
(* other string gives black, and every returned channel is a number in      *)
(* [0, 1]                                                                   *)
C15_ColorCodec ==
    cPhase = "done" =>
        /\ IsRRGGBB(cColor) =>
               /\ cResult.r = Finite(Rat(HexValue(SubSeq(cColor, 2, 3), 0), 255))
               /\ cResult.g = Finite(Rat(HexValue(SubSeq(cColor, 4, 5), 0), 255))
               /\ cResult.b = Finite(Rat(HexValue(SubSeq(cColor, 6, 7), 0), 255))
        /\ ~IsRRGGBB(cColor) => cResult = Black
        /\ InUnitRange(cResult.r) /\ InUnitRange(cResult.g) /\ InUnitRange(cResult.b)


----------------------------------------------------------------------------
(* The path renderer as a state machine: one path entry, drawn once *)

PathGeometries ==
    { <<10, 20, 1, 1, 100, 50, 800>>, <<0, 0, 2, 3, 40, 30, 800>>,
      <<30, 700, 0, 0, 60, 60, 800>> }

PathValues ==
    EmptyInputs \cup OddInputs
        \cup {ArrayForm(cmds, PlainStyle) : cmds \in CommandLists}
        \cup {StringForm(cmds, " ", PlainStyle) : cmds \in CommandLists}

PathEntries ==
    { [left |-> g[1], top |-> g[2], scaleX |-> g[3], scaleY |-> g[4], width |-> g[5],
       height |-> g[6], path |-> v] : g \in PathGeometries, v \in PathValues }

PathInit ==
    /\ WebIdle
    /\ SaveIdle
    /\ NormIdle /\ ParseIdle /\ FlatIdle /\ TextIdle /\ EditorIdle /\ ImageIdle
    /\ ColorIdle
    /\ rPhase = "start"
    /\ rData \in PathEntries
    /\ rPageHeight = 800
    /\ rMarks = <<>>
    /\ rRaised = FALSE

(* addAnnotationsToPage: await this.addPathToPage(page, objData, ...) *)
RAddPath ==
    /\ rPhase = "start"
    /\ rMarks' = addPathToPage(rData, rPageHeight)
    /\ rRaised' = FALSE
    /\ rPhase' = "done"
    /\ UNCHANGED <<rData, rPageHeight>>
    /\ PathFrame

PathNext == RAddPath

SpecPath == PathInit /\ [][PathNext]_vars

BoundingBoxOf(pathData, pageHeight) ==
    LET w == pathData.width * (IF pathData.scaleX = 0 THEN 1 ELSE pathData.scaleX)
        h == pathData.height * (IF pathData.scaleY = 0 THEN 1 ELSE pathData.scaleY)
    IN  Rectangle(pathData.left, pageHeight - pathData.top - h, w, h)

(* rawPath absent, empty or of an unparseable shape *)
NoRawPath(path) ==
    \/ path.t \in {"undefined", "null", "number", "boolean"}
    \/ path.t = "string" /\ path.str = <<>>
    \/ path.t = "array" /\ path.arr = <<>>
    \/ path.t = "object" /\ path.obj = <<>>

(* C14: a path entry whose rawPath is absent, empty, unparseable, makes the *)
(* parser throw or parses to an empty sequence is drawn as the bounding-box *)
(* rectangle of width*scaleX by height*scaleY, and no error is raised       *)
C14_PathFallback ==
    (rPhase = "done"
        /\ (NoRawPath(rData.path) \/ parseSVGPath(rData.path).thrown
               \/ parseSVGPath(rData.path).commands = <<>>))
    => (rMarks = <<BoundingBoxOf(rData, rPageHeight)>> /\ ~rRaised)


----------------------------------------------------------------------------
(* The Flatten Orchestrator as a state machine: one call of                 *)
(* savePdfWithChanges on a document of DocPages pages                       *)

MaxAnnotations == 3
DocPages == 2
DocPageSize == [width |-> 600, height |-> 800]

Annotation(type, fill, text, textData, pathData, imageData) ==
    [null |-> FALSE, type |-> type, fill |-> fill, text |-> text, textData |-> textData,
     pathData |-> pathData, imageData |-> imageData]

NullEntry ==
    [null |-> TRUE, type |-> "none", fill |-> JsUndefined, text |-> JsUndefined,
     textData |-> NoObj, pathData |-> NoPathEntry, imageData |-> NoImageData]

TextAnnotation(fill, text) ==
    Annotation(TextType, fill, text,
               PlainTextEntry(Num(20), Num(1), Num(1), Num(100), Num(60)),
               NoPathEntry, NoImageData)

PathAnnotation(path) ==
    Annotation(PathType, JsUndefined, JsUndefined, NoObj,
               [left |-> 10, top |-> 20, scaleX |-> 1, scaleY |-> 1, width |-> 100,
                height |-> 50, path |-> path],
               NoImageData)

ImageAnnotation(src) ==
    Annotation(ImageType, JsUndefined, JsUndefined, NoObj, NoPathEntry,
               [left |-> Num(300), top |-> Num(400), width |-> Num(100),
                height |-> Num(50), scaleX |-> Num(1), scaleY |-> Num(1), src |-> src])

OtherAnnotation == Annotation("rect", JsUndefined, JsUndefined, NoObj, NoPathEntry, NoImageData)

Annotations ==
    { NullEntry,
      TextAnnotation(JsUndefined, JsString(<<"H", "i">>)),
      TextAnnotation(JsNumber(5), JsString(<<"H", "i">>)),
      TextAnnotation(JsUndefined, JsNumber(5)),
      PathAnnotation(ArrayForm(<<Command("M", <<0, 0>>), Command("L", <<10, 10>>)>>,
                               PlainStyle)),
      ImageAnnotation(ImageSrc(TRUE, FALSE)),
      OtherAnnotation }

AnnotationLists == UNION {[1..n -> Annotations] : n \in 0..MaxAnnotations}

SecondPageLists ==
    { <<>>, <<TextAnnotation(JsUndefined, JsString(<<"H", "i">>))>>,
      <<NullEntry, ImageAnnotation(ImageSrc(TRUE, TRUE))>> }

PageEntry(pageNum, pageObjects) == [pageNum |-> pageNum, pageObjects |-> pageObjects]

(* the keys of modifications.pages are visited in ascending order; page     *)
(* DocPages + 1 is not in the document                                      *)
PageSets ==
    { first \o second \o third :
        first \in {<<>>} \cup {<<PageEntry(1, l)>> : l \in AnnotationLists},
        second \in {<<>>} \cup {<<PageEntry(2, l)>> : l \in SecondPageLists},
        third \in {<<>>, <<PageEntry(DocPages + 1, <<OtherAnnotation>>)>>} }

SaveInit ==
    /\ WebIdle
    /\ NormIdle /\ ParseIdle /\ FlatIdle /\ TextIdle /\ EditorIdle /\ ImageIdle
    /\ ColorIdle /\ PathIdle
    /\ sPc = "load"
    /\ sPages \in PageSets
    /\ sKey = 1
    /\ sAnn = 0
    /\ sMarks = [p \in 1..DocPages |-> <<>>]
    /\ sDone = {}
    /\ sFile = NoFile
    /\ sEscaped = FALSE

(* loadPdf and PDFDocument.load succeed *)
SLoad ==
    /\ sPc = "load"
    /\ sPc' = "pages"
    /\ UNCHANGED <<sPages, sKey, sAnn, sMarks, sDone, sFile, sEscaped>>
    /\ SaveFrame

(* loadPdf or PDFDocument.load throws: 'Unable to process PDF' *)
SLoadFails ==
    /\ sPc = "load"
    /\ sPc' = "thrown"
    /\ UNCHANGED <<sPages, sKey, sAnn, sMarks, sDone, sFile, sEscaped>>
    /\ SaveFrame

(* the head of the page loop: continue on an empty list, else getPage,      *)
(* which throws for a page number the document does not have                *)
SNextPage ==
    /\ sPc = "pages"
    /\ PagesLeft(sPages, sKey)
    /\ LET entry == sPages[sKey]
       IN  IF entry.pageObjects = <<>>
           THEN sKey' = sKey + 1 /\ UNCHANGED <<sPc, sAnn>>
           ELSE IF entry.pageNum \notin 1..DocPages
           THEN sPc' = "thrown" /\ UNCHANGED <<sKey, sAnn>>
           ELSE sPc' = "page" /\ sAnn' = 1 /\ UNCHANGED sKey
    /\ UNCHANGED <<sPages, sMarks, sDone, sFile, sEscaped>>
    /\ SaveFrame

(* the end of one turn: the catch, or the marks on the page *)
AfterAnnotation(pageNum, result) ==
    IF Escapes(result)
    THEN /\ sEscaped' = TRUE
         /\ sPc' = "thrown"
         /\ UNCHANGED <<sAnn, sMarks>>
    ELSE /\ sMarks' = [sMarks EXCEPT ![pageNum] = Commit(@, result)]
         /\ sAnn' = sAnn + 1
         /\ UNCHANGED <<sPc, sEscaped>>

(* addAnnotationsToPage: one turn of for (const objData of pageObjects) *)
SAnnotate ==
    /\ sPc = "page"
    /\ sAnn <= Len(sPages[sKey].pageObjects)
    /\ AfterAnnotation(sPages[sKey].pageNum,
                       Dispatch(sPages[sKey].pageObjects[sAnn], DocPageSize))
    /\ UNCHANGED <<sPages, sKey, sDone, sFile>>
    /\ SaveFrame

(* addAnnotationsToPage returns; the page loop goes on *)
SPageDone ==
    /\ sPc = "page"
    /\ sAnn > Len(sPages[sKey].pageObjects)
    /\ sDone' = sDone \cup {sKey}
    /\ sKey' = sKey + 1
    /\ sPc' = "pages"
    /\ UNCHANGED <<sPages, sAnn, sMarks, sFile, sEscaped>>
    /\ SaveFrame

(* const modifiedPdfBytes = await pdfDoc.save() *)
SSave ==
    /\ sPc = "pages"
    /\ ~PagesLeft(sPages, sKey)
    /\ sPc' = "write"
    /\ UNCHANGED <<sPages, sKey, sAnn, sMarks, sDone, sFile, sEscaped>>
    /\ SaveFrame

(* pdfDoc.save() throws *)
SSaveFails ==
    /\ sPc = "pages"
    /\ ~PagesLeft(sPages, sKey)
    /\ sPc' = "thrown"
    /\ UNCHANGED <<sPages, sKey, sAnn, sMarks, sDone, sFile, sEscaped>>
    /\ SaveFrame

(* await fs.writeFile(modifiedFilePath, modifiedPdfBytes); return *)
SWrite ==
    /\ sPc = "write"
    /\ sFile' = [written |-> TRUE, marks |-> sMarks]
    /\ sPc' = "returned"
    /\ UNCHANGED <<sPages, sKey, sAnn, sMarks, sDone, sEscaped>>
    /\ SaveFrame

(* fs.writeFile throws before the file exists *)
SWriteFails ==
    /\ sPc = "write"
    /\ sPc' = "thrown"
    /\ UNCHANGED <<sPages, sKey, sAnn, sMarks, sDone, sFile, sEscaped>>
    /\ SaveFrame

SaveNext ==
    \/ SLoad
    \/ SLoadFails
    \/ SNextPage
    \/ SAnnotate
    \/ SPageDone
    \/ SSave
    \/ SSaveFails
    \/ SWrite
    \/ SWriteFails

SpecSave == SaveInit /\ [][SaveNext]_vars

(* the entry is one the three renderers are called for *)
Known(objData) == ~objData.null /\ objData.type \in {TextType, PathType, ImageType}

(* rendering the entry throws: a null entry, a text entry whose fill or     *)
(* text is not a string                                                     *)
Fails(objData) ==
    \/ objData.null
    \/ /\ objData.type = TextType
       /\ \/ ~Falsy(objData.fill) /\ objData.fill.t # "string"
          \/ ~Falsy(objData.text) /\ objData.text.t # "string"

(* what its renderer draws for one entry *)
MarksOf(objData) == Dispatch(objData, DocPageSize).marks

RECURSIVE ExpectedMarks(_)
ExpectedMarks(pageObjects) ==
    IF pageObjects = <<>> THEN <<>>
    ELSE (IF Known(Head(pageObjects)) /\ ~Fails(Head(pageObjects))
          THEN MarksOf(Head(pageObjects)) ELSE <<>>)
         \o ExpectedMarks(Tail(pageObjects))

(* C12: whatever entry throws, no exception leaves addAnnotationsToPage,    *)
(* every entry of the page that does not throw is drawn, and every other    *)
(* page with annotations is handled before the document is saved            *)
C12_FaultIsolation ==
    /\ ~sEscaped
    /\ \A k \in sDone :
          \A j \in 1..Len(sPages[k].pageObjects) :
              ~Fails(sPages[k].pageObjects[j]) =>
                  IsSubsequence(MarksOf(sPages[k].pageObjects[j]),
                                sMarks[sPages[k].pageNum])
    /\ sPc \in {"write", "returned"} =>
          \A k \in 1..Len(sPages) : sPages[k].pageObjects # <<>> => k \in sDone

(* a page of three entries whose second is null, and a second page whose    *)
(* first is null: the first and third, and the image of page 2, are in the  *)
(* output                                                                   *)
C12_Witness ==
    /\ sPc = "returned"
    /\ Len(sPages) = 2
    /\ Len(sPages[1].pageObjects) = 3
    /\ Known(sPages[1].pageObjects[1]) /\ ~Fails(sPages[1].pageObjects[1])
    /\ sPages[1].pageObjects[2] = NullEntry
    /\ sPages[1].pageObjects[3].type = ImageType
    /\ Len(sFile.marks[1]) = 2
    /\ sFile.marks[1][2].kind = ImageType
    /\ Len(sPages[2].pageObjects) = 2
    /\ sPages[2].pageObjects[1] = NullEntry
    /\ Len(sFile.marks[2]) = 1

(* C13: the marks on a page are the marks of its i-text, path and image     *)
(* entries that did not fail, in list order, each entry complete before the *)
(* next starts; an entry of another type leaves no mark and no error        *)
C13_DrawOrder ==
    /\ \A k \in sDone :
          sMarks[sPages[k].pageNum] = ExpectedMarks(sPages[k].pageObjects)
    /\ sPc = "page" =>
          sMarks[sPages[sKey].pageNum]
              = ExpectedMarks(SubSeq(sPages[sKey].pageObjects, 1, sAnn - 1))
    /\ \A p \in 1..DocPages :
          \A m \in 1..Len(sMarks[p]) : sMarks[p][m].kind \in {TextType, PathType, ImageType}
    /\ sPc = "thrown" => ~sEscaped

(* a path, an entry of type rect and a text: the path below the text *)
C13_Witness ==
    /\ sPc = "returned"
    /\ Len(sPages) >= 1
    /\ Len(sPages[1].pageObjects) = 3
    /\ sPages[1].pageObjects[1].type = PathType
    /\ sPages[1].pageObjects[2] = OtherAnnotation
    /\ sPages[1].pageObjects[3].type = TextType
    /\ Len(sFile.marks[1]) = 2
    /\ sFile.marks[1][1].kind = PathType
    /\ sFile.marks[1][2].kind = TextType

(* C16: the filled file is written only when every page with a non-empty    *)
(* list was handled, and a call that throws has written no file             *)
C16_AllOrNothing ==
    /\ sFile.written =>
          /\ sPc = "returned"
          /\ \A k \in 1..Len(sPages) : sPages[k].pageObjects # <<>> => k \in sDone
          /\ \A k \in 1..Len(sPages) :
                sPages[k].pageObjects # <<>> =>
                    sFile.marks[sPages[k].pageNum] = ExpectedMarks(sPages[k].pageObjects)
    /\ sPc = "thrown" => ~sFile.written
    /\ sPc = "returned" => sFile.written

(* page 1 was drawn, then a page number the document does not have: the     *)
(* call throws and there is no file                                         *)
C16_Witness ==
    /\ sPc = "thrown"
    /\ sDone # {}
    /\ \E p \in 1..DocPages : sMarks[p] # <<>>
    /\ sKey <= Len(sPages)
    /\ sPages[sKey].pageNum = DocPages + 1
    /\ ~sFile.written


----------------------------------------------------------------------------
(* The controller as a state machine: two approval sessions of two          *)
(* documents each, view / sign / decline requests, the clock and the        *)
(* periodic cleanup                                                         *)

MaxRequests == 2
DefaultUrlExpiryHours == 168
DefaultTempFileAgeHours == 24
SessionCleanupHours == 168

SessionIds == {"S1", "S2"}
NoSession == "none"
FileIds == {"f1", "f2", "f3", "f4"}
RequestFiles == {"f1", "f2", "f3"}
Owner == [f \in FileIds |-> IF f \in {"f1", "f2"} THEN "S1" ELSE "S2"]
Slots == 1..MaxRequests

(* hours since the sessions were created *)
TimePoints == <<0, 30, 200>>
Absent == 0 - 1

(* the documents signed before the first request of the run: none, or the   *)
(* first document of session S1 (its original deleted, its filled file kept) *)
SignedBefore == {{}, {"f1"}}

EnvConfigs ==
    { [URL_EXPIRY_HOURS |-> 0, MAX_TEMP_FILE_AGE_HOURS |-> 0],
      [URL_EXPIRY_HOURS |-> 48, MAX_TEMP_FILE_AGE_HOURS |-> 0] }

(* parseInt(process.env.URL_EXPIRY_HOURS) || 168 *)
urlExpiryHours(env) ==
    IF env.URL_EXPIRY_HOURS # 0 THEN env.URL_EXPIRY_HOURS ELSE DefaultUrlExpiryHours

(* parseInt(MAX_TEMP_FILE_AGE_HOURS) || parseInt(URL_EXPIRY_HOURS) || 24 *)
tempFileAgeHours(env) ==
    IF env.MAX_TEMP_FILE_AGE_HOURS # 0 THEN env.MAX_TEMP_FILE_AGE_HOURS
    ELSE IF env.URL_EXPIRY_HOURS # 0 THEN env.URL_EXPIRY_HOURS
    ELSE DefaultTempFileAgeHours

NoRow == [exists |-> FALSE, status |-> "none", created |-> 0]
NoDocRow == [exists |-> FALSE, session |-> NoSession, status |-> "none", signed_at |-> FALSE]
NoRequest ==
    [kind |-> "none", fileId |-> "none", sessionId |-> NoSession, pc |-> "none",
     status |-> 0, isComplete |-> FALSE, did |-> {}, afterSign |-> FALSE]

(* database.getApprovalSession *)
getSession(sessions, sessionId) ==
    IF sessionId \in SessionIds THEN sessions[sessionId] ELSE NoRow

(* database.getSessionDocuments *)
getSessionDocuments(docs, sessionId) ==
    {f \in FileIds : docs[f].exists /\ docs[f].session = sessionId}

(* sessionManager.getDocumentStatus: the row, or none *)
getDocumentStatus(docs, sessionId, fileId) ==
    IF fileId \in getSessionDocuments(docs, sessionId) THEN docs[fileId] ELSE NoDocRow

(* sessionManager.isSessionExpired *)
isSessionExpired(sessions, sessionId, now, env) ==
    LET session == getSession(sessions, sessionId)
    IN  ~session.exists \/ now - session.created > urlExpiryHours(env)

(* pdfService.checkFileExpiry *)
checkFileExpiry(files, fileId, now, env) ==
    IF files[fileId].original = Absent THEN [exists |-> FALSE, expired |-> TRUE]
    ELSE [exists |-> TRUE,
          expired |-> now - files[fileId].original > urlExpiryHours(env)]

(* database.isSessionComplete *)
isSessionComplete(docs, sessionId) ==
    /\ getSessionDocuments(docs, sessionId) # {}
    /\ \A f \in getSessionDocuments(docs, sessionId) : docs[f].status = "signed"

(* sessionManager.getSignedDocuments: signed rows whose filled file reads *)
getSignedDocuments(docs, files, sessionId) ==
    {f \in getSessionDocuments(docs, sessionId) :
        docs[f].status = "signed" /\ files[f].filled # Absent}

(* sessionManager.cleanupSession: the files, the rows *)
FilesAfterCleanup(files, docs, sessionId) ==
    [f \in FileIds |->
        IF f \in getSessionDocuments(docs, sessionId)
        THEN [original |-> Absent, filled |-> Absent, layers |-> <<>>] ELSE files[f]]
DocsAfterRemove(docs, sessionId) ==
    [f \in FileIds |-> IF docs[f].session = sessionId THEN NoDocRow ELSE docs[f]]
SessionsAfterRemove(sessions, sessionId) ==
    [s \in SessionIds |-> IF s = sessionId THEN NoRow ELSE sessions[s]]

(* the rows with the signed ones left as they are *)
markSessionDeclined_pendingOnly(docs, sessionId) ==
    [f \in FileIds |->
        IF f \in getSessionDocuments(docs, sessionId) /\ docs[f].status # "signed"
        THEN [docs[f] EXCEPT !.status = "declined", !.signed_at = TRUE]
        ELSE docs[f]]

(* sessionManager.markSessionDeclined: updateDocumentStatus(doc.file_id,    *)
(* 'declined') for every row of the session                                 *)
markSessionDeclined(docs, sessionId) ==
    [f \in FileIds |->
        IF f \in getSessionDocuments(docs, sessionId)
        THEN [docs[f] EXCEPT !.status = "declined", !.signed_at = TRUE]
        ELSE docs[f]]

(* pdfService.loadPdf: the submissions already drawn into the bytes it      *)
(* returns, those of fileId_filled.pdf if that file exists, else none (the  *)
(* uploaded original)                                                       *)
loadPdf(files, fileId) ==
    IF files[fileId].filled # Absent THEN files[fileId].layers ELSE <<>>

(* the request is let through without a session id *)
MissingSessionId_never(sessionId) == FALSE

(* if (!sessionId) *)
MissingSessionId(sessionId) == sessionId = NoSession

(* viewPdf without the test of documentStatus.signed_at *)
ViewStatus_noSignedTest(sessions, docs, files, sessionId, fileId, now, env) ==
    LET session == getSession(sessions, sessionId)
        documentStatus == getDocumentStatus(docs, sessionId, fileId)
        fileStatus == checkFileExpiry(files, fileId, now, env)
    IN  IF ~session.exists THEN 404
        ELSE IF session.status = "completed" THEN 404
        ELSE IF isSessionExpired(sessions, sessionId, now, env) THEN 410
        ELSE IF ~documentStatus.exists THEN 404
        ELSE IF ~fileStatus.exists THEN 404
        ELSE IF fileStatus.expired THEN 410
        ELSE 200

(* the answer of viewPdf after its session id test *)
ViewStatus(sessions, docs, files, sessionId, fileId, now, env) ==
    LET session == getSession(sessions, sessionId)
        documentStatus == getDocumentStatus(docs, sessionId, fileId)
        fileStatus == checkFileExpiry(files, fileId, now, env)
    IN  IF ~session.exists THEN 404
        ELSE IF session.status = "completed" THEN 404
        ELSE IF isSessionExpired(sessions, sessionId, now, env) THEN 410
        ELSE IF ~documentStatus.exists THEN 404
        ELSE IF documentStatus.signed_at THEN 410
        ELSE IF ~fileStatus.exists THEN 404
        ELSE IF fileStatus.expired THEN 410
        ELSE 200

(* the checks signPdf and declinePdf share: 0 when all of them pass *)
WriteStatus(sessions, files, sessionId, fileId, now, env) ==
    LET fileStatus == checkFileExpiry(files, fileId, now, env)
    IN  IF ~getSession(sessions, sessionId).exists THEN 404
        ELSE IF isSessionExpired(sessions, sessionId, now, env) THEN 410
        ELSE IF ~fileStatus.exists THEN 404
        ELSE IF fileStatus.expired THEN 410
        ELSE 0

Moved(reqs, r, pc, status, did) ==
    [reqs EXCEPT ![r] = [@ EXCEPT !.pc = pc, !.status = status, !.did = @ \cup did]]

WebInit ==
    /\ NormIdle /\ ParseIdle /\ FlatIdle /\ TextIdle /\ EditorIdle /\ ImageIdle
    /\ ColorIdle /\ PathIdle /\ SaveIdle
    /\ wNow = 1
    /\ wEnv \in EnvConfigs
    /\ wSessions = [s \in SessionIds |-> [exists |-> TRUE, status |-> "pending", created |-> 0]]
    /\ \E signed \in SignedBefore :
          /\ wDocs = [f \in FileIds |->
                         [exists |-> TRUE, session |-> Owner[f],
                          status |-> IF f \in signed THEN "signed" ELSE "pending",
                          signed_at |-> f \in signed]]
          /\ wFiles = [f \in FileIds |->
                          IF f \in signed
                          THEN [original |-> Absent, filled |-> 0, layers |-> <<0>>]
                          ELSE [original |-> 0, filled |-> Absent, layers |-> <<>>]]
    /\ wHooks = [s \in SessionIds |-> [success |-> 0, declined |-> 0]]
    /\ wReqs = [r \in Slots |-> NoRequest]
    /\ wTimers = {}

(* a request arrives *)
WRequest(r) ==
    /\ wReqs[r].kind = "none"
    /\ \A q \in Slots : q < r => wReqs[q].kind # "none"
    /\ \E kind \in {"view", "sign", "decline"}, fileId \in RequestFiles,
          sessionId \in SessionIds \cup {NoSession} :
          wReqs' = [wReqs EXCEPT ![r] = [NoRequest EXCEPT !.kind = kind, !.fileId = fileId,
                                            !.sessionId = sessionId, !.pc = "start"]]
    /\ UNCHANGED <<wNow, wEnv, wSessions, wDocs, wFiles, wHooks, wTimers>>
    /\ WebFrame

(* viewPdf, signPdf, declinePdf: if (!sessionId) return res.status(400) *)
WStart(r) ==
    /\ wReqs[r].pc = "start"
    /\ wReqs' = IF MissingSessionId(wReqs[r].sessionId)
                THEN Moved(wReqs, r, "done", 400, {})
                ELSE Moved(wReqs, r, "check", 0, {})
    /\ UNCHANGED <<wNow, wEnv, wSessions, wDocs, wFiles, wHooks, wTimers>>
    /\ WebFrame

(* viewPdf: the session, document and file checks, then the PDF *)
WViewCheck(r) ==
    /\ wReqs[r].kind = "view" /\ wReqs[r].pc = "check"
    /\ wReqs' = Moved(wReqs, r, "done",
                      ViewStatus(wSessions, wDocs, wFiles, wReqs[r].sessionId,
                                 wReqs[r].fileId, TimePoints[wNow], wEnv), {})
    /\ UNCHANGED <<wNow, wEnv, wSessions, wDocs, wFiles, wHooks, wTimers>>
    /\ WebFrame

(* signPdf, declinePdf: getSession, isSessionExpired, checkFileExpiry *)
WWriteCheck(r) ==
    /\ wReqs[r].kind \in {"sign", "decline"} /\ wReqs[r].pc = "check"
    /\ LET status == WriteStatus(wSessions, wFiles, wReqs[r].sessionId, wReqs[r].fileId,
                                 TimePoints[wNow], wEnv)
       IN  wReqs' = IF status # 0 THEN Moved(wReqs, r, "done", status, {})
                    ELSE IF wReqs[r].kind = "sign" THEN Moved(wReqs, r, "flatten", 0, {})
                    ELSE Moved(wReqs, r, "mark", 0, {})
    /\ UNCHANGED <<wNow, wEnv, wSessions, wDocs, wFiles, wHooks, wTimers>>
    /\ WebFrame

(* signPdf: savePdfWithChanges reads the filled or the original file, draws *)
(* the submission of request r and writes fileId_filled.pdf                 *)
WSignFlatten(r) ==
    /\ wReqs[r].kind = "sign" /\ wReqs[r].pc = "flatten"
    /\ LET f == wReqs[r].fileId
       IN  IF wFiles[f].original = Absent /\ wFiles[f].filled = Absent
           THEN /\ wReqs' = Moved(wReqs, r, "done", 500, {})
                /\ UNCHANGED wFiles
           ELSE /\ wFiles' = [wFiles EXCEPT ![f].filled = TimePoints[wNow],
                                            ![f].layers = Append(loadPdf(wFiles, f), r)]
                /\ wReqs' = Moved(wReqs, r, "mark", 0, {"file"})
    /\ UNCHANGED <<wNow, wEnv, wSessions, wDocs, wHooks, wTimers>>
    /\ WebFrame

(* sessionManager.markDocumentSigned: the row WHERE session_id AND file_id, *)
(* then 'completed' when every row of the session is signed                 *)
WSignMark(r) ==
    /\ wReqs[r].kind = "sign" /\ wReqs[r].pc = "mark"
    /\ LET f == wReqs[r].fileId
           s == wReqs[r].sessionId
           matches == wDocs[f].exists /\ wDocs[f].session = s
           docs == IF matches
                   THEN [wDocs EXCEPT ![f].status = "signed", ![f].signed_at = TRUE]
                   ELSE wDocs
           isComplete == isSessionComplete(docs, s)
       IN  /\ wDocs' = docs
           /\ wSessions' = IF isComplete /\ getSession(wSessions, s).exists
                           THEN [wSessions EXCEPT ![s].status = "completed"]
                           ELSE wSessions
           /\ wReqs' = [Moved(wReqs, r, "cleanup", 0,
                              (IF matches THEN {"doc"} ELSE {})
                                  \cup (IF isComplete THEN {"session"} ELSE {}))
                           EXCEPT ![r].isComplete = isComplete]
    /\ UNCHANGED <<wNow, wEnv, wFiles, wHooks, wTimers>>
    /\ WebFrame

(* cleanupIndividualDocumentFiles: the original file is deleted; then the   *)
(* progress answer when the session is not complete                         *)
WSignCleanup(r) ==
    /\ wReqs[r].kind = "sign" /\ wReqs[r].pc = "cleanup"
    /\ wFiles' = [wFiles EXCEPT ![wReqs[r].fileId].original = Absent]
    /\ wReqs' = IF wReqs[r].isComplete THEN Moved(wReqs, r, "send", 0, {"file"})
                ELSE IF getSession(wSessions, wReqs[r].sessionId).exists
                THEN Moved(wReqs, r, "done", 200, {"file"})
                ELSE Moved(wReqs, r, "done", 500, {"file"})
    /\ UNCHANGED <<wNow, wEnv, wSessions, wDocs, wHooks, wTimers>>
    /\ WebFrame

(* sendSessionCompletionToSuccessEndpoint, updateSessionStatus 'completed', *)
(* setTimeout(cleanupSession)                                               *)
WSignSend(r) ==
    /\ wReqs[r].kind = "sign" /\ wReqs[r].pc = "send"
    /\ LET s == wReqs[r].sessionId
       IN  IF ~getSession(wSessions, s).exists
              \/ Cardinality(getSignedDocuments(wDocs, wFiles, s)) # 2
           THEN /\ wReqs' = Moved(wReqs, r, "done", 500, {})
                /\ UNCHANGED <<wHooks, wSessions, wTimers>>
           ELSE /\ wHooks' = [wHooks EXCEPT ![s].success = @ + 1]
                /\ wSessions' = [wSessions EXCEPT ![s].status = "completed"]
                /\ wTimers' = wTimers \cup {s}
                /\ wReqs' = Moved(wReqs, r, "done", 200, {"hook", "session"})
    /\ UNCHANGED <<wNow, wEnv, wDocs, wFiles>>
    /\ WebFrame

(* the setTimeout callback of signPdf: sessionManager.cleanupSession *)
WDelayedCleanup ==
    /\ \E s \in wTimers :
          /\ wFiles' = FilesAfterCleanup(wFiles, wDocs, s)
          /\ wDocs' = DocsAfterRemove(wDocs, s)
          /\ wSessions' = SessionsAfterRemove(wSessions, s)
          /\ wTimers' = wTimers \ {s}
    /\ UNCHANGED <<wNow, wEnv, wHooks, wReqs>>
    /\ WebFrame

(* the request names a document of the session it names *)
OwnDocument(req) == req.sessionId \in SessionIds /\ Owner[req.fileId] = req.sessionId

(* the other document of the session of f *)
OtherDocument(f) == CHOOSE g \in FileIds : g # f /\ Owner[g] = Owner[f]

(* a sign request for session s is between its checks and its answer *)
SignInFlight(s) ==
    \E q \in Slots :
        /\ wReqs[q].kind = "sign" /\ wReqs[q].sessionId = s
        /\ wReqs[q].pc \in {"flatten", "mark", "cleanup", "send"}

(* request r declines a pending document of its session whose other         *)
(* document is signed, and no sign request is under way;                    *)
(* markSessionDeclined is its next step.  The request keeps this as         *)
(* afterSign.                                                               *)
DeclinesAfterSign(r) ==
    /\ wReqs[r].kind = "decline" /\ wReqs[r].pc = "mark"
    /\ OwnDocument(wReqs[r])
    /\ wSessions[wReqs[r].sessionId].exists
    /\ wDocs[wReqs[r].fileId].status = "pending"
    /\ wDocs[OtherDocument(wReqs[r].fileId)].status = "signed"
    /\ wHooks[wReqs[r].sessionId].success = 0
    /\ ~SignInFlight(wReqs[r].sessionId)

(* sessionManager.markSessionDeclined: the session and all its rows *)
WDeclineMark(r) ==
    /\ wReqs[r].kind = "decline" /\ wReqs[r].pc = "mark"
    /\ LET s == wReqs[r].sessionId
       IN  /\ wSessions' = IF getSession(wSessions, s).exists
                           THEN [wSessions EXCEPT ![s].status = "declined"]
                           ELSE wSessions
           /\ wDocs' = markSessionDeclined(wDocs, s)
           /\ wReqs' = [Moved(wReqs, r, "send", 0,
                              IF getSession(wSessions, s).exists THEN {"session", "doc"}
                              ELSE {})
                           EXCEPT ![r].afterSign = DeclinesAfterSign(r)]
    /\ UNCHANGED <<wNow, wEnv, wFiles, wHooks, wTimers>>
    /\ WebFrame

(* sendSessionDeclineToDeclineEndpoint *)
WDeclineSend(r) ==
    /\ wReqs[r].kind = "decline" /\ wReqs[r].pc = "send"
    /\ LET s == wReqs[r].sessionId
       IN  IF ~getSession(wSessions, s).exists
           THEN /\ wReqs' = Moved(wReqs, r, "done", 500, {})
                /\ UNCHANGED wHooks
           ELSE /\ wHooks' = [wHooks EXCEPT ![s].declined = @ + 1]
                /\ wReqs' = Moved(wReqs, r, "cleanup", 0, {"hook"})
    /\ UNCHANGED <<wNow, wEnv, wSessions, wDocs, wFiles, wTimers>>
    /\ WebFrame

(* declinePdf: sessionManager.cleanupSession, then the answer *)
WDeclineCleanup(r) ==
    /\ wReqs[r].kind = "decline" /\ wReqs[r].pc = "cleanup"
    /\ LET s == wReqs[r].sessionId
       IN  /\ wFiles' = FilesAfterCleanup(wFiles, wDocs, s)
           /\ wDocs' = DocsAfterRemove(wDocs, s)
           /\ wSessions' = SessionsAfterRemove(wSessions, s)
    /\ wReqs' = Moved(wReqs, r, "done", 200, {"file", "session"})
    /\ UNCHANGED <<wNow, wEnv, wHooks, wTimers>>
    /\ WebFrame

(* time passes *)
WTick ==
    /\ wNow < Len(TimePoints)
    /\ wNow' = wNow + 1
    /\ UNCHANGED <<wEnv, wSessions, wDocs, wFiles, wHooks, wReqs, wTimers>>
    /\ WebFrame

(* setInterval: cleanupOldTemporaryFiles, then cleanupExpiredSessions() *)
WPeriodicCleanup ==
    /\ LET now == TimePoints[wNow]
           Old(mtime) == mtime # Absent /\ mtime < now - tempFileAgeHours(wEnv)
           expired == {s \in SessionIds :
                          wSessions[s].exists
                          /\ wSessions[s].created < now - SessionCleanupHours}
       IN  /\ wFiles' = [f \in FileIds |->
                            [original |-> IF Old(wFiles[f].original) THEN Absent
                                          ELSE wFiles[f].original,
                             filled |-> IF Old(wFiles[f].filled) THEN Absent
                                        ELSE wFiles[f].filled,
                             layers |-> IF Old(wFiles[f].filled) THEN <<>>
                                        ELSE wFiles[f].layers]]
           /\ wSessions' = [s \in SessionIds |-> IF s \in expired THEN NoRow ELSE wSessions[s]]
           /\ wDocs' = [f \in FileIds |->
                           IF wDocs[f].session \in expired THEN NoDocRow ELSE wDocs[f]]
    /\ UNCHANGED <<wNow, wEnv, wHooks, wReqs, wTimers>>
    /\ WebFrame

WebNext ==
    \/ \E r \in Slots : WRequest(r)
    \/ \E r \in Slots : WStart(r)
    \/ \E r \in Slots : WViewCheck(r)
    \/ \E r \in Slots : WWriteCheck(r)
    \/ \E r \in Slots : WSignFlatten(r)
    \/ \E r \in Slots : WSignMark(r)
    \/ \E r \in Slots : WSignCleanup(r)
    \/ \E r \in Slots : WSignSend(r)
    \/ WDelayedCleanup
    \/ \E r \in Slots : WDeclineMark(r)
    \/ \E r \in Slots : WDeclineSend(r)
    \/ \E r \in Slots : WDeclineCleanup(r)
    \/ WTick
    \/ WPeriodicCleanup

SpecWeb == WebInit /\ [][WebNext]_vars

(* C17: with sign and decline requests on a session's own documents, the    *)
(* Success webhook and the Declined webhook are never both called for it    *)
C17_OneOutcome ==
    (\A r \in Slots : wReqs[r].kind # "none" => OwnDocument(wReqs[r]))
    => \A s \in SessionIds : ~(wHooks[s].success > 0 /\ wHooks[s].declined > 0)

(* C18: a request whose fileId is not a document of the session it names is *)
(* answered 404 and changes no file, no row and sends no webhook            *)
C18_OwnSessionOnly ==
    \A r \in Slots :
        (wReqs[r].sessionId \in SessionIds /\ ~OwnDocument(wReqs[r]))
        => /\ wReqs[r].did = {}
           /\ wReqs[r].pc = "done" => wReqs[r].status = 404

(* C19: a view, sign or decline request without a session id is answered    *)
(* 400 and changes no file and no row                                       *)
C19_SessionIdRequired ==
    \A r \in Slots :
        (wReqs[r].kind # "none" /\ wReqs[r].sessionId = NoSession)
        => /\ wReqs[r].did = {}
           /\ wReqs[r].pc \in {"start", "done"}
           /\ wReqs[r].pc = "done" => wReqs[r].status = 400

(* a sign without a session id is answered 400 after another request has    *)
(* signed a document                                                        *)
C19_Witness ==
    \E r, q \in Slots :
        /\ wReqs[r].kind = "sign" /\ wReqs[r].sessionId = NoSession
        /\ wReqs[r].pc = "done" /\ wReqs[r].status = 400
        /\ wReqs[q].kind = "sign" /\ wReqs[q].pc = "done" /\ wReqs[q].status = 200
        /\ wFiles[wReqs[r].fileId].original # Absent

(* every request that touches the session is a finished view or sign of one *)
(* of its own documents                                                     *)
Quiet(s) ==
    \A r \in Slots :
        (wReqs[r].kind # "none" /\ (wReqs[r].sessionId = s \/ Owner[wReqs[r].fileId] = s))
        => /\ OwnDocument(wReqs[r])
           /\ wReqs[r].kind \in {"view", "sign"}
           /\ wReqs[r].pc = "done"

(* C20: while a session is younger than the URL expiry age, each of its     *)
(* documents that nobody signed can be viewed through its link              *)
C20_UsableUntilExpiry ==
    \A s \in SessionIds :
        \A f \in {g \in FileIds : Owner[g] = s} :
            (/\ Quiet(s)
             /\ TimePoints[wNow] < urlExpiryHours(wEnv)
             /\ wDocs[f].status # "signed"
             /\ \A r \in Slots : ~(wReqs[r].kind = "sign" /\ wReqs[r].fileId = f))
            => ViewStatus(wSessions, wDocs, wFiles, s, f, TimePoints[wNow], wEnv) = 200

(* C21: when one document of a session is signed and the other one is then  *)
(* declined, markSessionDeclined leaves the session and both its documents, *)
(* the signed one included, 'declined'; the decline request is answered     *)
(* only after the Declined webhook was called; and the Success webhook is   *)
(* never called for the session.                                            *)
C21_SignThenDecline ==
    /\ [][\A r \in Slots :
            (DeclinesAfterSign(r) /\ wReqs'[r].pc = "send")
            => /\ wSessions'[wReqs[r].sessionId].status = "declined"
               /\ \A f \in FileIds :
                      Owner[f] = wReqs[r].sessionId => wDocs'[f].status = "declined"]_vars
    /\ [](\A r \in Slots :
             wReqs[r].afterSign
             => /\ wHooks[wReqs[r].sessionId].success = 0
                /\ (wReqs[r].pc = "done" /\ wReqs[r].status = 200)
                   => wHooks[wReqs[r].sessionId].declined > 0)

(* f1 was signed, the decline of f2 is answered 200: the Declined webhook   *)
(* was called once and the session is gone                                  *)
C21_Witness ==
    \E r \in Slots :
        /\ wReqs[r].kind = "decline" /\ wReqs[r].fileId = "f2" /\ wReqs[r].sessionId = "S1"
        /\ wReqs[r].pc = "done" /\ wReqs[r].status = 200
        /\ wReqs[r].afterSign
        /\ wHooks["S1"].declined = 1 /\ wHooks["S1"].success = 0
        /\ ~wSessions["S1"].exists

(* C22: a document whose row carries signed_at is refused to every view     *)
(* request, whatever session id the request names: 410 under its own        *)
(* session while that is pending, 404 once the session is completed; a      *)
(* document whose row was removed with its session is answered 404; and a   *)
(* row that is signed stays signed until it is removed.                     *)
C22_SignedNeverServed ==
    /\ [](\A f \in FileIds, s \in SessionIds :
             LET answer == ViewStatus(wSessions, wDocs, wFiles, s, f, TimePoints[wNow], wEnv)
             IN  /\ (wDocs[f].exists /\ wDocs[f].signed_at)
                    => /\ answer \in {404, 410}
                       /\ (s = Owner[f] /\ wSessions[s].status = "pending") => answer = 410
                       /\ wSessions[s].status = "completed" => answer = 404
                 /\ (~wDocs[f].exists /\ s = Owner[f]) => answer = 404)
    /\ [][\A f \in FileIds :
            (wDocs[f].exists /\ wDocs[f].signed_at)
            => (~wDocs'[f].exists \/ wDocs'[f].signed_at)]_vars

(* f2 was signed by a request of the run while its original file was still  *)
(* there, and a view of f2 under its pending session was answered 410       *)
C22_Witness ==
    \E r, q \in Slots :
        /\ wReqs[q].kind = "sign" /\ wReqs[q].fileId = "f2" /\ wReqs[q].sessionId = "S1"
        /\ wReqs[q].pc = "cleanup"
        /\ wDocs["f2"].status = "signed" /\ wFiles["f2"].original # Absent
        /\ wSessions["S1"].status = "pending"
        /\ wReqs[r].kind = "view" /\ wReqs[r].fileId = "f2" /\ wReqs[r].sessionId = "S1"
        /\ wReqs[r].pc = "done" /\ wReqs[r].status = 410

(* C28: for every interleaving of concurrent sign requests, two documents   *)
(* at the same time or the same document twice, the Success webhook is      *)
(* called at most once per session.                                         *)
C28_SuccessOnce == \A s \in SessionIds : wHooks[s].success <= 1

(* C29: whatever sign requests a file has seen, a retry or two overlapping  *)
(* requests included, its filled document holds the annotations of one      *)
(* submission drawn once on the uploaded original, and none of an earlier   *)
(* attempt.                                                                 *)
C29_FlattenFromOriginal ==
    \A f \in FileIds : wFiles[f].filled # Absent => Len(wFiles[f].layers) = 1

(* the status of session s is final and its row is kept by the step *)
FinalKept(s) ==
    /\ wSessions[s].exists /\ wSessions[s].status \in {"completed", "declined"}
    /\ wSessions'[s].exists

(* C30: under any interleaving of sign and decline requests, a session      *)
(* whose status is 'completed' has at least one document and all its        *)
(* documents are 'signed'; and once a session is 'completed' or 'declined'  *)
(* its status never changes again.                                          *)
C30_CompletedAllSigned ==
    /\ [](\A s \in SessionIds :
            (wSessions[s].exists /\ wSessions[s].status = "completed")
                => isSessionComplete(wDocs, s))
    /\ [][\A s \in SessionIds :
            FinalKept(s) => wSessions'[s].status = wSessions[s].status]_vars

----------------------------------------------------------------------------
(* The page-switch lock of the editor.                                      *)

(* C25: once renderPage has set isPageSwitching, the lock is released       *)
(* again: also when getPage or page.render rejects, and when the background *)
(* image never fires onload.                                                *)
C25_LockReleased == eSwitching ~> ~eSwitching

(* the latest restorePageObjects call still waits for a callback *)
RestoreOutstanding == \E i \in 1..Len(ePending) : ePending[i].age = 0

(* C26: finishRestoration runs exactly once per restorePageObjects call and *)
(* only after every object of the page has been added, whether the          *)
(* per-object callbacks run at once or later; until then isRestoring and    *)
(* isPageSwitching stay true.                                               *)
C26_FinishOnce ==
    /\ eFinished <= 1
    /\ (RestoreOutstanding => eFinished = 0 /\ eRestoring /\ eSwitching)

(* the ids of the objects in a stored list *)
IdsIn(list) == { list[i].id : i \in 1..Len(list) }

(* C27: under any interleaving of page switch, zoom, debounced resize,      *)
(* delayed auto-save and submit, an annotation the user placed on page p    *)
(* and did not delete is in pageObjects[p] whenever pageObjects is read:    *)
(* when the page is restored and when the pages are posted.                 *)
C27_NoAnnotationLost ==
    [][/\ BackgroundLoaded =>
            \A id \in 1..MaxObjects :
                ePlaced[id] = eTarget => id \in IdsIn(ePageObjects[eTarget])
       /\ eSent' # eSent =>
            \A id \in 1..MaxObjects :
                ePlaced[id] # 0 => id \in IdsIn(eSent'[ePlaced[id]])]_vars

====
